---- MODULE Spec2Model ----
(***************************************************************************)
(* A model of src/src/transformers/integrations.py: the log-record         *)
(* rewriting, the reporting-integration registry, the process-wide ZeRO-3  *)
(* flag, deepspeed_init and the construction of the callback adapters.     *)
(*                                                                         *)
(* Python values are modelled as follows.                                  *)
(*   str    a tuple of one-character strings, so that startswith, slicing  *)
(*          and concatenation are computed character by character;         *)
(*   dict   (log records) a tuple of <<key, value>> pairs with pairwise    *)
(*          distinct keys, in insertion order;                             *)
(*   dict   (DeepSpeed config) a function whose DOMAIN is the set of keys  *)
(*          present, nested for the sections;                              *)
(*   None / True / False of a tri-state global: "None", "True", "False".   *)
(***************************************************************************)
EXTENDS Integers, Sequences, FiniteSets, TLC

VARIABLES
    d,                  \* rewrite_logs: the argument (a log record)
    new_d,              \* rewrite_logs: the returned dict, or NotCalled
    report_to,          \* get_reporting_integration_callbacks: the argument
    callbacks,          \* get_reporting_integration_callbacks: outcome, or NotCalled
    _is_deepspeed_zero3_enabled,    \* the module global of line 272
    sys_argv,           \* sys.argv of the process
    disk_files,         \* the config files on disk, by path
    cur_trainer,        \* the Trainer handed to deepspeed_init
    zero3_set_by,       \* history: the call that last assigned the global, and its value
    zero3_call,         \* the last is_deepspeed_zero3_enabled() call, or NotCalled
    ds_call,            \* the last deepspeed_init call, or NotCalled
    installed,          \* the modules importlib.util.find_spec finds
    os_environ,         \* the environment variables the module reads
    comet_api_key,      \* comet_ml's configuration holds an API key
    new_callback,       \* the last construction of a callback, or NotCalled
    cur_callback,       \* the callback instance the Trainer drives, its attributes
    cur_state,          \* the TrainerState the hooks are given
    sdk,                \* the state of the backing services' clients
    trace,              \* the hooks called and what they called on the services
    last_hook,          \* the last hook called, or NotCalled
    hp_trainer,         \* the Trainer a hyperparameter search runs on
    hp_call,            \* the run_hp_search_* call in progress or ended, or NotCalled
    hp_jobs,            \* the _objective invocations in progress, by worker
    hp_done,            \* the trials that ended, in the order they ended
    px_text,            \* PixtralProcessor: the prompt, as its pieces
    px_images,          \* PixtralProcessor: the images of the prompt, in order
    px_grid,            \* the patch grid the image processor gives each image
    px_inputs,          \* input_ids of the processor calls made, by how images were given
    ml_input,           \* MLflowCallback.setup: its arguments and the instance's limits
    ml_call             \* the MLflowCallback.setup call made, or NotCalled

logVars == <<d, new_d>>
regVars == <<report_to, callbacks>>
dsVars == <<_is_deepspeed_zero3_enabled, sys_argv, disk_files, cur_trainer, zero3_set_by,
            zero3_call, ds_call>>
cbVars == <<installed, os_environ, comet_api_key, new_callback>>
hookVars == <<cur_callback, cur_state, sdk, trace, last_hook>>
hpVars == <<hp_trainer, hp_call, hp_jobs, hp_done>>
pxVars == <<px_text, px_images, px_grid, px_inputs>>
mlVars == <<ml_input, ml_call>>
vars == <<logVars, regVars, dsVars, cbVars, hookVars, hpVars, pxVars, mlVars>>

\* a call not made yet; a call that was made is the one-element tuple of its record
NotCalled == <<>>

----------------------------------------------------------------------------
(* Bounds of the model.                                                    *)

MaxItems == 2       \* entries of a log record
MaxReport == 3      \* names in report_to
MaxArgv == 3        \* words of sys.argv

----------------------------------------------------------------------------
(* Python str and dict primitives.                                         *)

\* s.startswith(p)
startswith(s, p) ==
    /\ Len(p) <= Len(s)
    /\ \A i \in 1..Len(p) : s[i] = p[i]

\* s[n:]
slice_from(s, n) == [i \in 1..(IF Len(s) > n THEN Len(s) - n ELSE 0) |-> s[i + n]]

\* k in dict (dict as a tuple of pairs)
has_key(dict, k) == \E i \in 1..Len(dict) : dict[i][1] = k

\* dict[k] = v: an existing key keeps its position, a new key is appended
setitem(dict, k, v) ==
    IF has_key(dict, k)
    THEN [i \in 1..Len(dict) |-> IF dict[i][1] = k THEN <<k, v>> ELSE dict[i]]
    ELSE Append(dict, <<k, v>>)


----------------------------------------------------------------------------
(* rewrite_logs                                                            *)

eval_prefix == <<"e", "v", "a", "l", "_">>
eval_slash == <<"e", "v", "a", "l", "/">>
train_slash == <<"t", "r", "a", "i", "n", "/">>

\* a plausible slip: the prefix test without its underscore
rewrite_key_loose(k) ==
    IF startswith(k, <<"e", "v", "a", "l">>)
    THEN eval_slash \o slice_from(k, Len(eval_prefix))
    ELSE train_slash \o k

\* the key one entry is stored under (lines 265-268)
rewrite_key(k) ==
    IF startswith(k, eval_prefix)
    THEN eval_slash \o slice_from(k, Len(eval_prefix))
    ELSE train_slash \o k

\* the loop of lines 264-268 over d.items(), from entry i on
RECURSIVE rewrite_loop(_, _, _)
rewrite_loop(items, i, acc) ==
    IF i > Len(items) THEN acc
    ELSE rewrite_loop(items, i + 1, setitem(acc, rewrite_key(items[i][1]), items[i][2]))

rewrite_logs(dict) == rewrite_loop(dict, 1, <<>>)

----------------------------------------------------------------------------
(* The inputs of rewrite_logs: log records over keys around the prefix.    *)

LogStems == { <<>>, <<"l", "o", "s", "s">> }
LogPrefixes ==
    { <<>>, eval_prefix, <<"e", "v", "a", "l">>, eval_slash, train_slash,
      eval_prefix \o eval_prefix }
LogKeys == { p \o s : p \in LogPrefixes, s \in LogStems }

\* a log value: its Python type and a payload
LogValues == { [type |-> "float", val |-> 1], [type |-> "float", val |-> 2],
               [type |-> "str", val |-> 1] }

LogRecords ==
    { r \in UNION { [1..n -> LogKeys \X LogValues] : n \in 0..MaxItems } :
        \A i, j \in 1..Len(r) : r[i][1] = r[j][1] => i = j }

----------------------------------------------------------------------------
(* INTEGRATION_TO_CALLBACK and get_reporting_integration_callbacks         *)

\* the mapping's keys in definition order (lines 920-926)
INTEGRATION_KEYS == <<"azure_ml", "comet_ml", "mlflow", "tensorboard", "wandb">>

INTEGRATION_TO_CALLBACK ==
    [ azure_ml |-> "AzureMLCallback",
      comet_ml |-> "CometCallback",
      mlflow |-> "MLflowCallback",
      tensorboard |-> "TensorBoardCallback",
      wandb |-> "WandbCallback" ]

\* a plausible slip: the list built from the mapping, not from the request
callbacks_of_mapping(names) ==
    [ i \in 1..Cardinality({ n \in DOMAIN INTEGRATION_TO_CALLBACK :
                               \E j \in 1..Len(names) : names[j] = n }) |->
        LET present == { p \in 1..Len(INTEGRATION_KEYS) :
                           \E j \in 1..Len(names) : names[j] = INTEGRATION_KEYS[p] }
            pos == CHOOSE p \in present : Cardinality({ q \in present : q <= p }) = i
        IN  INTEGRATION_TO_CALLBACK[INTEGRATION_KEYS[pos]] ]

\* the list comprehension of line 935
callbacks_of(names) == [ i \in 1..Len(names) |-> INTEGRATION_TO_CALLBACK[names[i]] ]

\* a plausible slip: the loop runs on and reports the last unsupported name
first_unsupported_last(names) ==
    LET bad == { i \in 1..Len(names) : names[i] \notin DOMAIN INTEGRATION_TO_CALLBACK }
    IN  IF bad = {} THEN 0 ELSE CHOOSE i \in bad : \A j \in bad : j <= i

\* the loop of lines 930-934: the index of the first unsupported name, 0 if none
first_unsupported(names) ==
    LET bad == { i \in 1..Len(names) : names[i] \notin DOMAIN INTEGRATION_TO_CALLBACK }
    IN  IF bad = {} THEN 0 ELSE CHOOSE i \in bad : \A j \in bad : i <= j

\* the call's outcome: the returned list, or the ValueError with the two
\* parts its message is formatted from (line 933)
get_reporting_integration_callbacks(names) ==
    LET i == first_unsupported(names)
    IN  IF i > 0
        THEN [ raised |-> "ValueError", unsupported |-> names[i],
               supported |-> INTEGRATION_KEYS, returned |-> <<>> ]
        ELSE [ raised |-> "none", unsupported |-> "", supported |-> <<>>,
               returned |-> callbacks_of(names) ]

ReportNames == { "azure_ml", "comet_ml", "mlflow", "tensorboard", "wandb", "bogus", "none" }
ReportLists == UNION { [1..n -> ReportNames] : n \in 0..MaxReport }

----------------------------------------------------------------------------
(* DeepSpeed configs: a function from the keys present to their values.   *)

EmptyDict == [k \in {} |-> 0]

\* config[k] = v
put(config, k, v) == [x \in DOMAIN config \cup {k} |-> IF x = k THEN v ELSE config[x]]

\* {**a, **b}
merge(a, b) == [x \in DOMAIN a \cup DOMAIN b |-> IF x \in DOMAIN b THEN b[x] ELSE a[x]]

\* the files a run may name; a file is [state, json]: state "missing" (no such
\* path), "broken" (not JSON) or "json" (it parses to the config json)
FileNames == { "ds_config.json" }

\* the checkpoint directories a run may resume from: the second holds no
\* global_step* directory, the third holds one the engine cannot load
CheckpointDirs == { "ckpt_ok", "ckpt_plain", "ckpt_unloadable" }

\* glob.glob(f"{resume_from_checkpoint}/global_step*") (line 530), non-empty
has_global_step_dirs(path) == path \in { "ckpt_ok", "ckpt_unloadable" }

\* the load_path model.load_checkpoint returns (line 535)
load_checkpoint(path) == IF path = "ckpt_ok" THEN path ELSE "None"

\* a plausible slip: the dict returned as it is, without deepcopy
deepspeed_parse_config_uncopied(ds_config, files) ==
    IF ds_config.kind = "dict"
    THEN [ raised |-> "none", config |-> ds_config.value, shared |-> TRUE ]
    ELSE IF ds_config.kind = "str"
    THEN IF ds_config.value \notin DOMAIN files \/ files[ds_config.value].state = "missing"
         THEN [ raised |-> "FileNotFoundError", config |-> EmptyDict, shared |-> FALSE ]
         ELSE IF files[ds_config.value].state = "broken"
         THEN [ raised |-> "JSONDecodeError", config |-> EmptyDict, shared |-> FALSE ]
         ELSE [ raised |-> "none", config |-> files[ds_config.value].json, shared |-> FALSE ]
    ELSE [ raised |-> "ValueError", config |-> EmptyDict, shared |-> FALSE ]

\* deepspeed_parse_config (lines 321-339): ds_config is [kind, value], kind
\* being the Python type of the argument; the outcome is the config or the
\* exception raised, and whether the config returned is the very object the
\* caller holds (shared) or a new one: deepcopy and json.load make new ones
deepspeed_parse_config(ds_config, files) ==
    IF ds_config.kind = "dict"
    THEN [ raised |-> "none", config |-> ds_config.value, shared |-> FALSE ]
    ELSE IF ds_config.kind = "str"
    THEN IF ds_config.value \notin DOMAIN files \/ files[ds_config.value].state = "missing"
         THEN [ raised |-> "FileNotFoundError", config |-> EmptyDict, shared |-> FALSE ]
         ELSE IF files[ds_config.value].state = "broken"
         THEN [ raised |-> "JSONDecodeError", config |-> EmptyDict, shared |-> FALSE ]
         ELSE [ raised |-> "none", config |-> files[ds_config.value].json, shared |-> FALSE ]
    ELSE [ raised |-> "ValueError", config |-> EmptyDict, shared |-> FALSE ]

----------------------------------------------------------------------------
(* The process-wide flag (lines 272-318).                                  *)

\* sys.argv.index("--deepspeed"): the first occurrence, 0 when there is none
argv_index(argv) ==
    LET at == { i \in 1..Len(argv) : argv[i] = "--deepspeed" }
    IN  IF at = {} THEN 0 ELSE CHOOSE i \in at : \A j \in at : i <= j

\* a plausible slip: the flag assigned only once the discovery has ended, so
\* that a discovery that raises leaves it None
zero3_discover_unset(argv, files) ==
    LET idx == argv_index(argv)
    IN  IF idx = 0 THEN [ flag |-> "False", raised |-> "none" ]
        ELSE IF idx + 1 > Len(argv) THEN [ flag |-> "None", raised |-> "IndexError" ]
        ELSE IF argv[idx + 1] \notin DOMAIN files \/ files[argv[idx + 1]].state = "missing"
        THEN [ flag |-> "None", raised |-> "ValueError" ]
        ELSE LET parsed == deepspeed_parse_config([kind |-> "str", value |-> argv[idx + 1]], files)
                 config == parsed.config
             IN  IF parsed.raised # "none"
                 THEN [ flag |-> "None", raised |-> parsed.raised ]
                 ELSE IF /\ "zero_optimization" \in DOMAIN config
                         /\ "stage" \in DOMAIN config["zero_optimization"]
                         /\ config["zero_optimization"]["stage"] = 3
                 THEN [ flag |-> "True", raised |-> "none" ]
                 ELSE [ flag |-> "False", raised |-> "none" ]

\* the auto-discovery of lines 286-302, run when the flag is None: the value
\* the flag is left with and what the call raises
zero3_discover(argv, files) ==
    LET idx == argv_index(argv)
    IN  IF idx = 0 THEN [ flag |-> "False", raised |-> "none" ]
        ELSE IF idx + 1 > Len(argv) THEN [ flag |-> "False", raised |-> "IndexError" ]
        ELSE IF argv[idx + 1] \notin DOMAIN files \/ files[argv[idx + 1]].state = "missing"
        THEN [ flag |-> "False", raised |-> "ValueError" ]
        ELSE LET parsed == deepspeed_parse_config([kind |-> "str", value |-> argv[idx + 1]], files)
                 config == parsed.config
             IN  IF parsed.raised # "none"
                 THEN [ flag |-> "False", raised |-> parsed.raised ]
                 ELSE IF /\ "zero_optimization" \in DOMAIN config
                         /\ "stage" \in DOMAIN config["zero_optimization"]
                         /\ config["zero_optimization"]["stage"] = 3
                 THEN [ flag |-> "True", raised |-> "none" ]
                 ELSE [ flag |-> "False", raised |-> "none" ]

\* a plausible slip: the discovery runs on every call, the flag is no cache
is_deepspeed_zero3_enabled_uncached(flag, argv, files) ==
    LET found == zero3_discover(argv, files)
    IN  [ flag |-> found.flag, raised |-> found.raised,
          ret |-> IF found.raised = "none" THEN found.flag ELSE "None",
          read_argv |-> TRUE ]

\* is_deepspeed_zero3_enabled (lines 275-304): the flag after the call, what
\* the call raises, what it returns, and whether it looked at sys.argv
is_deepspeed_zero3_enabled(flag, argv, files) ==
    IF flag = "None"
    THEN LET found == zero3_discover(argv, files)
         IN  [ flag |-> found.flag, raised |-> found.raised,
               ret |-> IF found.raised = "none" THEN found.flag ELSE "None",
               read_argv |-> TRUE ]
    ELSE [ flag |-> flag, raised |-> "none", ret |-> flag, read_argv |-> FALSE ]

\* deepspeed_zero3_enable (lines 307-318): the flag after the call
deepspeed_zero3_enable(enable) == IF enable THEN "True" ELSE "False"

----------------------------------------------------------------------------
(* deepspeed_init (lines 342-543), section by section.  A frame holds the  *)
(* function's locals and the objects it changes:                           *)
(*   config                      the parsed config being filled in         *)
(*   raised, why                 the exception raised so far and its cause *)
(*   optimizer, lr_scheduler     the locals passed to deepspeed.initialize *)
(*   trainer_optimizer, trainer_lr_scheduler   "None" or "created"         *)
(*   flag                        _is_deepspeed_zero3_enabled               *)
(*   enabled_with                what deepspeed_zero3_enable was called    *)
(*                               with, "None" when it was not called       *)
(*   initialize                  the arguments of deepspeed.initialize, or *)
(*                               NotCalled                                 *)
(*   loaded                      model.load_checkpoint has been called     *)
(* A section leaves a frame that has raised as it is.                      *)

\* lines 358-361
ds_parse(trainer, flag, files) ==
    LET parsed == deepspeed_parse_config(trainer.args.deepspeed, files)
    IN  [ config |-> parsed.config,
          shared |-> parsed.shared,
          raised |-> parsed.raised,
          why |-> IF parsed.raised = "none" THEN "" ELSE "parse",
          optimizer |-> "None",
          lr_scheduler |-> "None",
          trainer_optimizer |-> trainer.optimizer,
          trainer_lr_scheduler |-> trainer.lr_scheduler,
          flag |-> flag,
          enabled_with |-> "None",
          initialize |-> NotCalled,
          loaded |-> FALSE ]

raise(f, exception, why) == [f EXCEPT !.raised = exception, !.why = why]

\* a plausible slip: the check of the batch-size keys left out
ds_batch_keys_unchecked(f) == f

\* lines 370-378
ds_batch_keys(f) ==
    IF f.raised # "none" THEN f
    ELSE IF { "train_batch_size", "train_micro_batch_size_per_gpu" } \cap DOMAIN f.config # {}
    THEN raise(f, "ValueError", "bs_keys")
    ELSE IF "gradient_accumulation_steps" \in DOMAIN f.config
    THEN raise(f, "ValueError", "gradient_accumulation_steps")
    ELSE f

\* a plausible slip: the two command-line values stored under each other's key
ds_batch_swapped(f, args) ==
    IF f.raised # "none" THEN f
    ELSE LET c1 == put(f.config, "train_micro_batch_size_per_gpu", args.gradient_accumulation_steps)
             c2 == put(c1, "gradient_accumulation_steps", args.per_device_train_batch_size)
             c3 == IF "gradient_clipping" \in DOMAIN c2 THEN c2
                   ELSE put(c2, "gradient_clipping", args.max_grad_norm)
         IN  [f EXCEPT !.config = c3]

\* lines 383-389
ds_batch(f, args) ==
    IF f.raised # "none" THEN f
    ELSE LET c1 == put(f.config, "train_micro_batch_size_per_gpu", args.per_device_train_batch_size)
             c2 == put(c1, "gradient_accumulation_steps", args.gradient_accumulation_steps)
             c3 == IF "gradient_clipping" \in DOMAIN c2 THEN c2
                   ELSE put(c2, "gradient_clipping", args.max_grad_norm)
         IN  [f EXCEPT !.config = c3]

\* a plausible slip: every command-line value written, present or not
override_adding(section_params, params) == merge(section_params, params)

\* the loops of lines 415-418 and 458-461: the keys of params that the
\* section already holds take the command-line value
override(section_params, params) ==
    [ k \in DOMAIN section_params |->
        IF k \in DOMAIN params THEN params[k] ELSE section_params[k] ]

\* a plausible slip: the ZeRO-Offload check left out
ds_optimizer_offload_unchecked(f, args) ==
    IF f.raised # "none" THEN f
    ELSE IF "optimizer" \in DOMAIN f.config
    THEN LET params == [ lr |-> args.learning_rate,
                         betas |-> <<args.adam_beta1, args.adam_beta2>>,
                         eps |-> args.adam_epsilon,
                         weight_decay |-> args.weight_decay ]
             section == f.config["optimizer"]
         IN  [f EXCEPT !.config = put(f.config, "optimizer",
                           put(section, "params", override(section["params"], params)))]
    ELSE [f EXCEPT !.trainer_optimizer = "created",
                   !.optimizer = "created",
                   !.config = put(f.config, "zero_allow_untested_optimizer", TRUE)]

\* lines 404-434
ds_optimizer(f, args) ==
    IF f.raised # "none" THEN f
    ELSE IF "optimizer" \in DOMAIN f.config
    THEN LET params == [ lr |-> args.learning_rate,
                         betas |-> <<args.adam_beta1, args.adam_beta2>>,
                         eps |-> args.adam_epsilon,
                         weight_decay |-> args.weight_decay ]
             section == f.config["optimizer"]
         IN  [f EXCEPT !.config = put(f.config, "optimizer",
                           put(section, "params", override(section["params"], params)))]
    ELSE IF /\ "zero_optimization" \in DOMAIN f.config
            /\ "cpu_offload" \in DOMAIN f.config["zero_optimization"]
            /\ f.config["zero_optimization"]["cpu_offload"] = TRUE
    THEN raise(f, "ValueError", "zero_offload")
    ELSE [f EXCEPT !.trainer_optimizer = "created",
                   !.optimizer = "created",
                   !.config = put(f.config, "zero_allow_untested_optimizer", TRUE)]

\* lines 444-470
ds_scheduler(f, args, num_training_steps) ==
    IF f.raised # "none" THEN f
    ELSE IF "scheduler" \in DOMAIN f.config
    THEN LET section == f.config["scheduler"]
             p1 == IF section["type"] = "WarmupDecayLR"
                   THEN put(section["params"], "total_num_steps", num_training_steps)
                   ELSE section["params"]
             params == [ warmup_max_lr |-> args.learning_rate,
                         warmup_num_steps |-> args.warmup_steps ]
         IN  [f EXCEPT !.config = put(f.config, "scheduler",
                           put(section, "params", override(p1, params)))]
    ELSE IF "optimizer" \in DOMAIN f.config
    THEN raise(f, "ValueError", "hf_scheduler_ds_optimizer")
    ELSE [f EXCEPT !.trainer_lr_scheduler = "created", !.lr_scheduler = "created"]

\* lines 473-491
ds_fp16(f, trainer) ==
    IF f.raised # "none" THEN f
    ELSE IF trainer.fp16_backend = "apex"
    THEN IF "amp" \in DOMAIN f.config THEN f
         ELSE [f EXCEPT !.config = put(f.config, "amp",
                   [ enabled |-> TRUE, opt_level |-> trainer.args.fp16_opt_level ])]
    ELSE IF trainer.fp16_backend = "amp"
    THEN IF "fp16" \in DOMAIN f.config THEN f
         ELSE [f EXCEPT !.config = put(f.config, "fp16", [ enabled |-> TRUE ])]
    ELSE f

\* zero.get(k) == 0
get_is_zero(zero, k) == k \in DOMAIN zero /\ zero[k] = 0

\* a plausible slip: the sizes written whatever the config holds
ds_zero_buckets_always(zero, trainer) ==
    LET hidden_size == IF trainer.args.ort THEN trainer.model.original_hidden_size
                       ELSE trainer.model.hidden_size
    IN  put(put(put(zero, "reduce_bucket_size", hidden_size * hidden_size),
                "stage3_prefetch_bucket_size", (9 * hidden_size * hidden_size) \div 10),
            "stage3_param_persistence_threshold", 10 * hidden_size)

\* lines 500-507, the bucket sizes derived from the model's hidden size; every
\* hidden size of the model is a multiple of 10, so 0.9 * h * h is 9 * h * h / 10
ds_zero_buckets(zero, trainer) ==
    LET hidden_size == IF trainer.args.ort THEN trainer.model.original_hidden_size
                       ELSE trainer.model.hidden_size
        z1 == IF get_is_zero(zero, "reduce_bucket_size")
              THEN put(zero, "reduce_bucket_size", hidden_size * hidden_size) ELSE zero
        z2 == IF get_is_zero(z1, "stage3_prefetch_bucket_size")
              THEN put(z1, "stage3_prefetch_bucket_size", (9 * hidden_size * hidden_size) \div 10)
              ELSE z1
        z3 == IF get_is_zero(z2, "stage3_param_persistence_threshold")
              THEN put(z2, "stage3_param_persistence_threshold", 10 * hidden_size) ELSE z2
    IN  z3

\* a plausible slip: the flag assigned from the stage whether or not the
\* config has the section
ds_zero_always_assigns(f, trainer) ==
    IF f.raised # "none" THEN f
    ELSE IF "zero_optimization" \in DOMAIN f.config
    THEN LET zero == f.config["zero_optimization"]
             stage3 == "stage" \in DOMAIN zero /\ zero["stage"] = 3
         IN  [f EXCEPT !.flag = deepspeed_zero3_enable(stage3),
                       !.enabled_with = IF stage3 THEN "True" ELSE "False",
                       !.config = put(f.config, "zero_optimization",
                                      ds_zero_buckets(zero, trainer))]
    ELSE [f EXCEPT !.flag = deepspeed_zero3_enable(FALSE), !.enabled_with = "False"]

\* a plausible slip: the flag only ever switched on
ds_zero_enable_only(f, trainer) ==
    IF f.raised # "none" THEN f
    ELSE IF "zero_optimization" \in DOMAIN f.config
    THEN LET zero == f.config["zero_optimization"]
         IN  [f EXCEPT !.flag = IF "stage" \in DOMAIN zero /\ zero["stage"] = 3
                                THEN deepspeed_zero3_enable(TRUE) ELSE f.flag,
                       !.enabled_with = IF "stage" \in DOMAIN zero /\ zero["stage"] = 3
                                        THEN "True" ELSE f.enabled_with,
                       !.config = put(f.config, "zero_optimization",
                                      ds_zero_buckets(zero, trainer))]
    ELSE f

\* lines 494-507
ds_zero(f, trainer) ==
    IF f.raised # "none" THEN f
    ELSE IF "zero_optimization" \in DOMAIN f.config
    THEN LET zero == f.config["zero_optimization"]
             stage3 == "stage" \in DOMAIN zero /\ zero["stage"] = 3
         IN  [f EXCEPT !.flag = deepspeed_zero3_enable(stage3),
                       !.enabled_with = IF stage3 THEN "True" ELSE "False",
                       !.config = put(f.config, "zero_optimization",
                                      ds_zero_buckets(zero, trainer))]
    ELSE f

\* lines 512-520
ds_initialize(f) ==
    IF f.raised # "none" THEN f
    ELSE [f EXCEPT !.initialize = << [ config_params |-> f.config,
                                       optimizer |-> f.optimizer,
                                       lr_scheduler |-> f.lr_scheduler ] >>]

\* a plausible slip: a path without DeepSpeed checkpoints treated as a failed load
ds_resume_strict(f, resume_from_checkpoint) ==
    IF f.raised # "none" THEN f
    ELSE IF resume_from_checkpoint = "None" THEN f
    ELSE IF has_global_step_dirs(resume_from_checkpoint)
    THEN LET load_path == load_checkpoint(resume_from_checkpoint)
         IN  IF load_path = "None"
             THEN raise([f EXCEPT !.loaded = TRUE], "ValueError", "resume")
             ELSE [f EXCEPT !.loaded = TRUE]
    ELSE raise(f, "ValueError", "resume")

\* lines 522-541
ds_resume(f, resume_from_checkpoint) ==
    IF f.raised # "none" THEN f
    ELSE IF resume_from_checkpoint = "None" THEN f
    ELSE IF has_global_step_dirs(resume_from_checkpoint)
    THEN LET load_path == load_checkpoint(resume_from_checkpoint)
         IN  IF load_path = "None"
             THEN raise([f EXCEPT !.loaded = TRUE], "ValueError", "resume")
             ELSE [f EXCEPT !.loaded = TRUE]
    ELSE f

\* deepspeed_init: the frame at its return or at the raise
deepspeed_init(trainer, num_training_steps, resume_from_checkpoint, flag, files) ==
    LET f0 == ds_parse(trainer, flag, files)
        f1 == ds_batch_keys(f0)
        f2 == ds_batch(f1, trainer.args)
        f3 == ds_optimizer(f2, trainer.args)
        f4 == ds_scheduler(f3, trainer.args, num_training_steps)
        f5 == ds_fp16(f4, trainer)
        f6 == ds_zero(f5, trainer)
        f7 == ds_initialize(f6)
        f8 == ds_resume(f7, resume_from_checkpoint)
    IN  f8

----------------------------------------------------------------------------
(* The Trainers deepspeed_init is called on.  The numbers stand for the    *)
(* command-line values and the config's own values; the code only copies   *)
(* them, so all that matters is that they differ from each other.          *)

TrainerOf(ds_config, batch_size, accumulation_steps, fp16_backend, ort) ==
    [ args |-> [ deepspeed |-> ds_config,
                 per_device_train_batch_size |-> batch_size,
                 gradient_accumulation_steps |-> accumulation_steps,
                 max_grad_norm |-> 1,
                 learning_rate |-> 5,
                 adam_beta1 |-> 9,
                 adam_beta2 |-> 99,
                 adam_epsilon |-> 6,
                 weight_decay |-> 0,
                 warmup_steps |-> 10,
                 fp16_opt_level |-> "O1",
                 ort |-> ort ],
      model |-> [ hidden_size |-> 10, original_hidden_size |-> 20 ],
      fp16_backend |-> fp16_backend,
      optimizer |-> "None",
      lr_scheduler |-> "None" ]

AsDict(config) == [ kind |-> "dict", value |-> config ]

\* the keys that must be left to the command line
BatchKeyPieces ==
    { EmptyDict,
      [ train_batch_size |-> 32 ],
      [ train_micro_batch_size_per_gpu |-> 4 ],
      [ gradient_accumulation_steps |-> 4 ] }

OptimizerPieces ==
    { EmptyDict,
      [ optimizer |-> [ type |-> "AdamW", params |-> [ betas |-> << 8, 98 >>, eps |-> 2 ] ] ],
      [ optimizer |-> [ type |-> "AdamW",
                        params |-> [ lr |-> 3, weight_decay |-> 4, amsgrad |-> FALSE ] ] ] }

SchedulerPieces ==
    { EmptyDict,
      [ scheduler |-> [ type |-> "WarmupLR",
                        params |-> [ warmup_max_lr |-> 3, total_num_steps |-> 77 ] ] ],
      [ scheduler |-> [ type |-> "WarmupDecayLR",
                        params |-> [ warmup_num_steps |-> 50 ] ] ] }

StagePieces == { EmptyDict, [ stage |-> 2 ], [ stage |-> 3 ] }
OffloadPieces == { EmptyDict, [ cpu_offload |-> TRUE ], [ cpu_offload |-> FALSE ] }
BucketPieces ==
    { EmptyDict,
      [ reduce_bucket_size |-> 0, stage3_prefetch_bucket_size |-> 0,
        stage3_param_persistence_threshold |-> 0 ],
      [ reduce_bucket_size |-> 500, stage3_prefetch_bucket_size |-> 0 ] }

ZeroPieces ==
    { EmptyDict }
    \cup { [ zero_optimization |-> merge(s, o) ] : s \in StagePieces, o \in OffloadPieces }
    \cup { [ zero_optimization |-> merge([ stage |-> 3 ], b) ] : b \in BucketPieces }

\* the rest of a Trainer: the config's gradient_clipping, trainer.fp16_backend
\* with the config's own amp / fp16 section, the batch size, the accumulation
\* steps and args.ort
RestPieces ==
    { [ config |-> EmptyDict, fp16_backend |-> "None",
        per_device_train_batch_size |-> 8, gradient_accumulation_steps |-> 2,
        ort |-> FALSE ],
      [ config |-> [ gradient_clipping |-> 7 ], fp16_backend |-> "apex",
        per_device_train_batch_size |-> 16, gradient_accumulation_steps |-> 1,
        ort |-> TRUE ],
      [ config |-> [ amp |-> [ enabled |-> FALSE ] ], fp16_backend |-> "apex",
        per_device_train_batch_size |-> 8, gradient_accumulation_steps |-> 1,
        ort |-> FALSE ],
      [ config |-> [ gradient_clipping |-> 7, fp16 |-> [ enabled |-> FALSE ] ],
        fp16_backend |-> "amp",
        per_device_train_batch_size |-> 16, gradient_accumulation_steps |-> 2,
        ort |-> FALSE ],
      [ config |-> EmptyDict, fp16_backend |-> "amp",
        per_device_train_batch_size |-> 8, gradient_accumulation_steps |-> 2,
        ort |-> TRUE ] }

NumTrainingSteps == { 1000 }

DSInitTrainers ==
    { TrainerOf(AsDict(merge(merge(merge(merge(k, o), s), z), r.config)),
                r.per_device_train_batch_size, r.gradient_accumulation_steps,
                r.fp16_backend, r.ort) :
        k \in BatchKeyPieces, o \in OptimizerPieces, s \in SchedulerPieces,
        z \in ZeroPieces, r \in RestPieces }

\* what resume_from_checkpoint may be
ResumeArgs == { "None" } \cup CheckpointDirs

\* the Trainers of the runs that watch the flag
FlagConfigs ==
    { AsDict(EmptyDict),
      AsDict([ zero_optimization |-> EmptyDict ]),
      AsDict([ zero_optimization |-> [ stage |-> 2 ] ]),
      AsDict([ zero_optimization |-> [ stage |-> 3 ] ]),
      AsDict([ zero_optimization |-> [ stage |-> 2, cpu_offload |-> TRUE ] ]) }

FlagTrainers == { TrainerOf(c, 8, 2, "None", FALSE) : c \in FlagConfigs }

\* what ds_config.json may hold
FileStates ==
    { [ state |-> "missing", json |-> EmptyDict ],
      [ state |-> "broken", json |-> EmptyDict ],
      [ state |-> "json", json |-> EmptyDict ],
      [ state |-> "json", json |-> [ zero_optimization |-> EmptyDict ] ],
      [ state |-> "json", json |-> [ zero_optimization |-> [ stage |-> 2 ] ] ],
      [ state |-> "json", json |-> [ zero_optimization |-> [ stage |-> 3 ] ] ] }

ArgvWords == { "--deepspeed", "ds_config.json" }
ArgvLists == UNION { [1..n -> ArgvWords] : n \in 0..MaxArgv }

NoSetter == [ by |-> "none", value |-> "None" ]
IdleTrainer == TrainerOf(AsDict(EmptyDict), 8, 2, "None", FALSE)

IdleDS ==
    /\ _is_deepspeed_zero3_enabled = "None"
    /\ sys_argv = <<>>
    /\ disk_files = [ n \in FileNames |-> [ state |-> "missing", json |-> EmptyDict ] ]
    /\ cur_trainer = IdleTrainer
    /\ zero3_set_by = NoSetter
    /\ zero3_call = NotCalled
    /\ ds_call = NotCalled

----------------------------------------------------------------------------
(* The availability probes (lines 35-97) and the constructors of the five  *)
(* callbacks.  assert statements are executed: the interpreter runs        *)
(* without -O.  A module that find_spec finds imports.                     *)

\* file_utils.ENV_VARS_TRUE_VALUES, imported at line 49
ENV_VARS_TRUE_VALUES == { "1", "ON", "YES", "TRUE" }


\* str.upper() on the values the environment variables take
upper(v) ==
    CASE v = "true" -> "TRUE"
      [] v = "disabled" -> "DISABLED"
      [] v = "offline" -> "OFFLINE"
      [] v = "get" -> "GET"
      [] OTHER -> v

\* os.getenv(name, default)
getenv(environ, name, default) ==
    IF environ[name] = "unset" THEN default ELSE environ[name]

\* lines 55-63
is_wandb_available(environ, modules) ==
    IF upper(getenv(environ, "WANDB_DISABLED", "")) \in ENV_VARS_TRUE_VALUES
    THEN FALSE
    ELSE "wandb" \in modules

\* _has_comet as the module sets it when it is imported (lines 35-47)
has_comet(environ, modules, api_key) ==
    IF "comet_ml" \in modules /\ upper(getenv(environ, "COMET_MODE", "")) # "DISABLED"
    THEN api_key
    ELSE FALSE

\* lines 66-67
is_comet_available(environ, modules, api_key) == has_comet(environ, modules, api_key)

\* lines 70-71
is_tensorboard_available(modules) == "tensorboard" \in modules \/ "tensorboardX" \in modules

\* lines 88-93
is_azureml_available(modules) ==
    IF "azureml" \notin modules THEN FALSE
    ELSE IF "azureml.core" \notin modules THEN FALSE
    ELSE "azureml.core.run" \in modules

\* lines 96-97
is_mlflow_available(modules) == "mlflow" \in modules

\* a construction that raised
Failed(cls, exception) == [ cls |-> cls, raised |-> exception, instance |-> <<>> ]

\* a construction that returned the instance with these attributes; an
\* attribute the class does not have is "n/a"
Instance(cls, attrs) ==
    [ cls |-> cls, raised |-> "none",
      instance |-> << merge([ cls |-> cls, SummaryWriter |-> "n/a", tb_writer |-> "n/a",
                              wandb |-> "n/a", initialized |-> "n/a", log_model |-> "n/a",
                              azureml_run |-> "n/a", log_artifacts |-> "n/a",
                              ml_flow |-> "n/a" ], attrs) >> ]

\* a plausible slip: the constructor without its assert
TensorBoardCallback_unasserted(tb_writer, modules) ==
    LET has_tensorboard == is_tensorboard_available(modules)
        SummaryWriter ==
            IF has_tensorboard
            THEN IF { "torch", "tensorboard" } \subseteq modules THEN "torch.utils.tensorboard"
                 ELSE IF "tensorboardX" \in modules THEN "tensorboardX"
                 ELSE "None"
            ELSE "None"
    IN  Instance("TensorBoardCallback",
                 [ SummaryWriter |-> SummaryWriter, tb_writer |-> tb_writer ])

\* TensorBoardCallback.__init__ (lines 556-575)
TensorBoardCallback(tb_writer, modules) ==
    LET has_tensorboard == is_tensorboard_available(modules)
        SummaryWriter ==
            IF has_tensorboard
            THEN IF { "torch", "tensorboard" } \subseteq modules THEN "torch.utils.tensorboard"
                 ELSE IF "tensorboardX" \in modules THEN "tensorboardX"
                 ELSE "None"
            ELSE "None"
    IN  IF ~has_tensorboard THEN Failed("TensorBoardCallback", "AssertionError")
        ELSE Instance("TensorBoardCallback",
                      [ SummaryWriter |-> SummaryWriter, tb_writer |-> tb_writer ])

\* WandbCallback.__init__ (lines 637-646)
WandbCallback(environ, modules) ==
    LET has_wandb == is_wandb_available(environ, modules)
    IN  IF ~has_wandb THEN Failed("WandbCallback", "AssertionError")
        ELSE Instance("WandbCallback",
                      [ wandb |-> "wandb", initialized |-> "False",
                        log_model |->
                            IF upper(getenv(environ, "WANDB_LOG_MODEL", "FALSE"))
                                 \in ENV_VARS_TRUE_VALUES \cup { "TRUE" }
                            THEN "True" ELSE "False" ])

\* CometCallback.__init__ (lines 759-761)
CometCallback(environ, modules, api_key) ==
    IF ~has_comet(environ, modules, api_key) THEN Failed("CometCallback", "AssertionError")
    ELSE Instance("CometCallback", [ initialized |-> "False" ])

\* AzureMLCallback.__init__ (lines 815-819)
AzureMLCallback(azureml_run, modules) ==
    IF ~is_azureml_available(modules) THEN Failed("AzureMLCallback", "AssertionError")
    ELSE Instance("AzureMLCallback", [ azureml_run |-> azureml_run ])

\* MLflowCallback.__init__ (lines 839-848)
MLflowCallback(modules) ==
    IF ~is_mlflow_available(modules) THEN Failed("MLflowCallback", "AssertionError")
    ELSE Instance("MLflowCallback",
                  [ initialized |-> "False", log_artifacts |-> "False", ml_flow |-> "mlflow" ])

\* the modules a process may have: any of the six, and azureml down to a depth
ModuleSets ==
    { top \cup azure :
        top \in SUBSET { "tensorboard", "tensorboardX", "torch", "wandb", "comet_ml", "mlflow" },
        azure \in { {}, { "azureml" }, { "azureml", "azureml.core" },
                    { "azureml", "azureml.core", "azureml.core.run" } } }

Environments ==
    [ WANDB_DISABLED : { "unset", "true" },
      WANDB_LOG_MODEL : { "unset", "true" },
      COMET_MODE : { "unset", "disabled" },
      HF_MLFLOW_LOG_ARTIFACTS : { "unset" } ]

\* a writer or run the caller passes in, "None" for none
PassedIn == { "None", "given" }

----------------------------------------------------------------------------
(* The hooks of the callbacks.  A hook takes the world it runs in, the     *)
(* record [cb, sdk, trace], and returns the world it leaves:               *)
(*   cb     the instance's attributes;                                     *)
(*   sdk    what the services' clients hold: wandb.run, comet_ml's global  *)
(*          experiment, mlflow's active run, the number of writers made;   *)
(*   trace  every call made on a service and every warning logged, in      *)
(*          order, as [op, on, key, value].                                *)
(* The services themselves are the vendors' code: a call on one is an      *)
(* event of the trace and raises nothing.                                  *)

MaxHooks == 3       \* hooks called on one instance

\* the payload of an event that carries no value
NoValue == [ type |-> "none", val |-> 0 ]

Event(op, on, key, value) == [ op |-> op, on |-> on, key |-> key, value |-> value ]

emit(w, op, on) == [ w EXCEPT !.trace = Append(@, Event(op, on, <<>>, NoValue)) ]

emit_value(w, op, on, key, value) ==
    [ w EXCEPT !.trace = Append(@, Event(op, on, key, value)) ]

\* isinstance(v, (int, float)): bool is a subclass of int
is_int_or_float(v) == v.type \in { "int", "float", "bool" }

\* the writers SummaryWriter(log_dir=...) returns, in the order they are made
CreatedWriters ==
    << "writer_1", "writer_2", "writer_3", "writer_4", "writer_5", "writer_6" >>

\* "train/global_step", the key WandbCallback.on_log adds (line 751)
train_global_step ==
    train_slash \o << "g", "l", "o", "b", "a", "l", "_", "s", "t", "e", "p" >>

\* TensorBoardCallback._init_summary_writer (lines 577-580)
_init_summary_writer(w) ==
    IF w.cb.SummaryWriter # "None"
    THEN LET writer == CreatedWriters[w.sdk.writers + 1]
         IN  emit([ w EXCEPT !.cb.tb_writer = writer, !.sdk.writers = @ + 1 ],
                  "SummaryWriter", writer)
    ELSE w

\* the loop of lines 615-624 over logs.items(), from entry i on
RECURSIVE tensorboard_log_loop(_, _, _)
tensorboard_log_loop(w, logs, i) ==
    IF i > Len(logs) THEN w
    ELSE tensorboard_log_loop(
             IF is_int_or_float(logs[i][2])
             THEN emit_value(w, "add_scalar", w.cb.tb_writer, logs[i][1], logs[i][2])
             ELSE emit_value(w, "warning", "logger", logs[i][1], logs[i][2]),
             logs, i + 1)

\* TensorBoardCallback.on_train_begin (lines 582-604); the Trainer passes its
\* model, which has a config
TensorBoardCallback_on_train_begin(w, state) ==
    IF ~state.is_world_process_zero THEN w
    ELSE LET w1 == _init_summary_writer(w)
         IN  IF w1.cb.tb_writer # "None"
             THEN LET w2 == emit_value(w1, "add_text", w1.cb.tb_writer,
                                       << "a", "r", "g", "s" >>, NoValue)
                      w3 == emit_value(w2, "add_text", w1.cb.tb_writer,
                                       << "m", "o", "d", "e", "l" >>, NoValue)
                  IN  IF w1.cb.SummaryWriter # "tensorboardX"
                      THEN emit(w3, "add_hparams", w1.cb.tb_writer)
                      ELSE w3
             ELSE w1

\* a plausible slip: the loop without its isinstance test
TensorBoardCallback_on_log_unfiltered(w, state, logs) ==
    IF ~state.is_world_process_zero THEN w
    ELSE LET w1 == IF w.cb.tb_writer = "None" THEN _init_summary_writer(w) ELSE w
             new_logs == rewrite_logs(logs)
             RECURSIVE pass(_, _)
             pass(x, i) ==
                 IF i > Len(new_logs) THEN x
                 ELSE pass(emit_value(x, "add_scalar", x.cb.tb_writer,
                                      new_logs[i][1], new_logs[i][2]), i + 1)
         IN  IF w1.cb.tb_writer # "None"
             THEN emit(pass(w1, 1), "flush", w1.cb.tb_writer)
             ELSE w1

\* TensorBoardCallback.on_log (lines 606-625)
TensorBoardCallback_on_log(w, state, logs) ==
    IF ~state.is_world_process_zero THEN w
    ELSE LET w1 == IF w.cb.tb_writer = "None" THEN _init_summary_writer(w) ELSE w
         IN  IF w1.cb.tb_writer # "None"
             THEN emit(tensorboard_log_loop(w1, rewrite_logs(logs), 1),
                       "flush", w1.cb.tb_writer)
             ELSE w1

\* a plausible slip: the writer left open
TensorBoardCallback_on_train_end_open(w, state) == w

\* TensorBoardCallback.on_train_end (lines 627-629)
TensorBoardCallback_on_train_end(w, state) ==
    IF w.cb.tb_writer # "None" THEN emit(w, "close", w.cb.tb_writer) ELSE w

\* WandbCallback.setup (lines 648-705); define_metric and watch, calls on
\* the wandb module that carry no metric, are left out
WandbCallback_setup(w, state) ==
    IF w.cb.wandb = "None" THEN w
    ELSE LET w1 == [ w EXCEPT !.cb.initialized = "True" ]
         IN  IF state.is_world_process_zero
             THEN LET w2 == IF w1.sdk.wandb_run = "None"
                            THEN emit([ w1 EXCEPT !.sdk.wandb_run = "active" ],
                                      "wandb.init", "wandb")
                            ELSE w1
                  IN  emit(w2, "wandb.config.update", "wandb")
             ELSE w1

\* WandbCallback.on_train_begin (lines 707-714); wandb.finish() ends the run
WandbCallback_on_train_begin(w, state) ==
    IF w.cb.wandb = "None" THEN w
    ELSE LET w1 == IF state.is_hyper_param_search
                   THEN emit([ w EXCEPT !.sdk.wandb_run = "None" ], "wandb.finish", "wandb")
                   ELSE w
         IN  IF w1.cb.initialized # "True" THEN WandbCallback_setup(w1, state) ELSE w1

\* WandbCallback.on_train_end (lines 716-742): the model saved and uploaded
WandbCallback_on_train_end(w, state) ==
    IF w.cb.wandb = "None" THEN w
    ELSE IF w.cb.log_model = "True" /\ w.cb.initialized = "True"
            /\ state.is_world_process_zero
         THEN emit(w, "log_artifact", "wandb.run")
         ELSE w

\* one call of op with a dict: an event for each of its entries, in order
RECURSIVE emit_entries(_, _, _, _, _)
emit_entries(w, op, on, dict, i) ==
    IF i > Len(dict) THEN w
    ELSE emit_entries(emit_value(w, op, on, dict[i][1], dict[i][2]), op, on, dict, i + 1)

\* WandbCallback.on_log (lines 744-751)
WandbCallback_on_log(w, state, logs) ==
    IF w.cb.wandb = "None" THEN w
    ELSE LET w1 == IF w.cb.initialized # "True" THEN WandbCallback_setup(w, state) ELSE w
         IN  IF state.is_world_process_zero
             THEN emit_entries(w1, "wandb.log", "wandb",
                               setitem(rewrite_logs(logs), train_global_step,
                                       [ type |-> "int", val |-> state.global_step ]), 1)
             ELSE w1

\* CometCallback.setup (lines 763-794); creating an experiment makes it
\* comet_ml's global experiment
CometCallback_setup(w, state, environ) ==
    LET w1 == [ w EXCEPT !.cb.initialized = "True" ]
        comet_mode == upper(getenv(environ, "COMET_MODE", "ONLINE"))
        made == CASE comet_mode = "ONLINE" ->
                       emit([ w1 EXCEPT !.sdk.comet_experiment = "online" ],
                            "Experiment", "comet_ml")
                  [] comet_mode = "OFFLINE" ->
                       emit([ w1 EXCEPT !.sdk.comet_experiment = "offline" ],
                            "OfflineExperiment", "comet_ml")
                  [] OTHER -> w1
    IN  IF ~state.is_world_process_zero THEN w1
        ELSE IF comet_mode \in { "ONLINE", "OFFLINE" }
             THEN emit(emit(emit(made, "_set_model_graph", "experiment"),
                            "_log_parameters", "experiment"),
                       "_log_parameters", "experiment")
             ELSE w1

\* CometCallback.on_train_begin (lines 796-798)
CometCallback_on_train_begin(w, state, environ) ==
    IF w.cb.initialized # "True" THEN CometCallback_setup(w, state, environ) ELSE w

\* CometCallback.on_log (lines 800-806)
CometCallback_on_log(w, state, logs, environ) ==
    LET w1 == IF w.cb.initialized # "True" THEN CometCallback_setup(w, state, environ) ELSE w
    IN  IF state.is_world_process_zero /\ w1.sdk.comet_experiment # "None"
        THEN emit_entries(w1, "_log_metrics", "experiment", logs, 1)
        ELSE w1

\* AzureMLCallback.on_init_end (lines 821-825)
AzureMLCallback_on_init_end(w, state) ==
    IF w.cb.azureml_run = "None" /\ state.is_world_process_zero
    THEN emit([ w EXCEPT !.cb.azureml_run = "context" ], "Run.get_context", "azureml")
    ELSE w

\* the loop of lines 829-831 over logs.items(), from entry i on
RECURSIVE azureml_log_loop(_, _, _)
azureml_log_loop(w, logs, i) ==
    IF i > Len(logs) THEN w
    ELSE azureml_log_loop(
             IF is_int_or_float(logs[i][2])
             THEN emit_value(w, "azureml_run.log", w.cb.azureml_run, logs[i][1], logs[i][2])
             ELSE w,
             logs, i + 1)

\* AzureMLCallback.on_log (lines 827-831)
AzureMLCallback_on_log(w, state, logs) ==
    IF w.cb.azureml_run # "None" THEN azureml_log_loop(w, logs, 1) ELSE w

\* MLflowCallback.setup (lines 850-886); the parameters go out in one event
MLflowCallback_setup(w, state, environ) ==
    LET log_artifacts == upper(getenv(environ, "HF_MLFLOW_LOG_ARTIFACTS", "FALSE"))
        w1 == IF log_artifacts \in { "TRUE", "1" }
              THEN [ w EXCEPT !.cb.log_artifacts = "True" ]
              ELSE w
        w2 == IF state.is_world_process_zero
              THEN emit(emit([ w1 EXCEPT !.sdk.mlflow_run = "active" ], "start_run", "mlflow"),
                        "log_params", "mlflow")
              ELSE w1
    IN  [ w2 EXCEPT !.cb.initialized = "True" ]

\* MLflowCallback.on_train_begin (lines 888-890)
MLflowCallback_on_train_begin(w, state, environ) ==
    IF w.cb.initialized # "True" THEN MLflowCallback_setup(w, state, environ) ELSE w

\* a plausible slip: the loop gives up at the first value it cannot log
RECURSIVE mlflow_log_loop_stopping(_, _, _)
mlflow_log_loop_stopping(w, logs, i) ==
    IF i > Len(logs) THEN w
    ELSE IF is_int_or_float(logs[i][2])
         THEN mlflow_log_loop_stopping(
                  emit_value(w, "log_metric", "mlflow", logs[i][1], logs[i][2]), logs, i + 1)
         ELSE emit_value(w, "warning", "logger", logs[i][1], logs[i][2])

\* the loop of lines 896-905 over logs.items(), from entry i on
RECURSIVE mlflow_log_loop(_, _, _)
mlflow_log_loop(w, logs, i) ==
    IF i > Len(logs) THEN w
    ELSE mlflow_log_loop(
             IF is_int_or_float(logs[i][2])
             THEN emit_value(w, "log_metric", "mlflow", logs[i][1], logs[i][2])
             ELSE emit_value(w, "warning", "logger", logs[i][1], logs[i][2]),
             logs, i + 1)

\* a plausible slip: on_log that sets up without asking whether it has
MLflowCallback_on_log_resetup(w, state, logs, environ) ==
    LET w1 == MLflowCallback_setup(w, state, environ)
    IN  IF state.is_world_process_zero THEN mlflow_log_loop(w1, logs, 1) ELSE w1

\* MLflowCallback.on_log (lines 892-905)
MLflowCallback_on_log(w, state, logs, environ) ==
    LET w1 == IF w.cb.initialized # "True" THEN MLflowCallback_setup(w, state, environ) ELSE w
    IN  IF state.is_world_process_zero THEN mlflow_log_loop(w1, logs, 1) ELSE w1

\* MLflowCallback.on_train_end (lines 907-911)
MLflowCallback_on_train_end(w, state) ==
    IF w.cb.initialized = "True" /\ state.is_world_process_zero /\ w.cb.log_artifacts = "True"
    THEN emit(w, "log_artifacts", "mlflow")
    ELSE w

\* MLflowCallback.__del__ (lines 913-917): active_run is mlflow's function,
\* never None, so the run is always ended
MLflowCallback_del(w) ==
    emit([ w EXCEPT !.sdk.mlflow_run = "None" ], "end_run", "mlflow")

\* the hooks TrainerCallback declares and these classes take part in; a
\* class that does not define one inherits TrainerCallback's, which does nothing
HookNames == { "on_init_end", "on_train_begin", "on_log", "on_train_end" }

\* callback_handler's call of one hook on the instance
call_hook(w, name, state, logs, environ) ==
    CASE w.cb.cls = "TensorBoardCallback" /\ name = "on_train_begin" ->
             TensorBoardCallback_on_train_begin(w, state)
      [] w.cb.cls = "TensorBoardCallback" /\ name = "on_log" ->
             TensorBoardCallback_on_log(w, state, logs)
      [] w.cb.cls = "TensorBoardCallback" /\ name = "on_train_end" ->
             TensorBoardCallback_on_train_end(w, state)
      [] w.cb.cls = "WandbCallback" /\ name = "on_train_begin" ->
             WandbCallback_on_train_begin(w, state)
      [] w.cb.cls = "WandbCallback" /\ name = "on_log" ->
             WandbCallback_on_log(w, state, logs)
      [] w.cb.cls = "WandbCallback" /\ name = "on_train_end" ->
             WandbCallback_on_train_end(w, state)
      [] w.cb.cls = "CometCallback" /\ name = "on_train_begin" ->
             CometCallback_on_train_begin(w, state, environ)
      [] w.cb.cls = "CometCallback" /\ name = "on_log" ->
             CometCallback_on_log(w, state, logs, environ)
      [] w.cb.cls = "AzureMLCallback" /\ name = "on_init_end" ->
             AzureMLCallback_on_init_end(w, state)
      [] w.cb.cls = "AzureMLCallback" /\ name = "on_log" ->
             AzureMLCallback_on_log(w, state, logs)
      [] w.cb.cls = "MLflowCallback" /\ name = "on_train_begin" ->
             MLflowCallback_on_train_begin(w, state, environ)
      [] w.cb.cls = "MLflowCallback" /\ name = "on_log" ->
             MLflowCallback_on_log(w, state, logs, environ)
      [] w.cb.cls = "MLflowCallback" /\ name = "on_train_end" ->
             MLflowCallback_on_train_end(w, state)
      [] OTHER -> w

loss == << "l", "o", "s", "s" >>

\* the log records the Trainer emits: all numeric; a string between two
\* numbers; a bool (an int to isinstance) and a None
HookLogs ==
    { << <<loss, [ type |-> "float", val |-> 1 ]>>,
         <<eval_prefix \o loss, [ type |-> "int", val |-> 2 ]>> >>,
      << <<loss, [ type |-> "float", val |-> 1 ]>>,
         << <<"n">>, [ type |-> "str", val |-> 1 ]>>,
         << <<"e">>, [ type |-> "float", val |-> 2 ]>> >>,
      << << <<"b">>, [ type |-> "bool", val |-> 1 ]>>,
         << <<"x">>, [ type |-> "NoneType", val |-> 0 ]>> >> }

\* the TrainerState of a process: it is or is not world process zero, in a
\* hyperparameter search or not
HookStates ==
    [ is_world_process_zero : BOOLEAN, is_hyper_param_search : BOOLEAN, global_step : { 7 } ]

NoEnviron ==
    [ WANDB_DISABLED |-> "unset", WANDB_LOG_MODEL |-> "unset", COMET_MODE |-> "unset",
      HF_MLFLOW_LOG_ARTIFACTS |-> "unset" ]

AzureModules == { "azureml", "azureml.core", "azureml.core.run" }

\* the processes a callback is constructed in with success: its modules, its
\* environment, the argument of the constructor, and whether the user has
\* opened a wandb run already
HookSetups ==
    [ cls : { "TensorBoardCallback" },
      modules : { { "tensorboard", "torch" }, { "tensorboardX" }, { "tensorboard" } },
      environ : { NoEnviron }, arg : PassedIn, wandb_run : { "None" } ]
    \cup
    [ cls : { "WandbCallback" }, modules : { { "wandb" } },
      environ : { NoEnviron, [ NoEnviron EXCEPT !.WANDB_LOG_MODEL = "true" ] },
      arg : { "None" }, wandb_run : { "None", "active" } ]
    \cup
    [ cls : { "CometCallback" }, modules : { { "comet_ml" } },
      environ : { NoEnviron, [ NoEnviron EXCEPT !.COMET_MODE = "offline" ],
                  [ NoEnviron EXCEPT !.COMET_MODE = "get" ] },
      arg : { "None" }, wandb_run : { "None" } ]
    \cup
    [ cls : { "AzureMLCallback" }, modules : { AzureModules },
      environ : { NoEnviron }, arg : PassedIn, wandb_run : { "None" } ]
    \cup
    [ cls : { "MLflowCallback" }, modules : { { "mlflow" } },
      environ : { NoEnviron, [ NoEnviron EXCEPT !.HF_MLFLOW_LOG_ARTIFACTS = "true" ] },
      arg : { "None" }, wandb_run : { "None" } ]

\* the constructor call of a setup
construct(setup) ==
    CASE setup.cls = "TensorBoardCallback" -> TensorBoardCallback(setup.arg, setup.modules)
      [] setup.cls = "WandbCallback" -> WandbCallback(setup.environ, setup.modules)
      [] setup.cls = "CometCallback" -> CometCallback(setup.environ, setup.modules, TRUE)
      [] setup.cls = "AzureMLCallback" -> AzureMLCallback(setup.arg, setup.modules)
      [] setup.cls = "MLflowCallback" -> MLflowCallback(setup.modules)

----------------------------------------------------------------------------
(* The hyperparameter search drivers.  A Python value that may be None is  *)
(* <<>> for None and <<v>> for the value v.                                *)

MaxTrials == 2      \* n_trials of a search

None == <<>>
Some(v) == <<v>>

\* the objective the training loop records in trial t when it evaluates, and
\* compute_objective of the metrics evaluate() returns in trial t: numbers
\* that tell the trials and the two sources apart
train_objective(t) == 10 * t + 1
eval_objective(t) == 10 * t + 2

\* trainer.train(resume_from_checkpoint, trial), the training loop: it
\* returns, having recorded an objective (which it also reports to the search
\* backend) or not
train(trainer, t, records) ==
    IF records THEN [ trainer EXCEPT !.objective = Some(train_objective(t)) ] ELSE trainer

\* a worker that runs no _objective
IdleJob == [ pc |-> "idle", trial |-> 0, recorded |-> FALSE, evaluated |-> FALSE,
             metrics |-> None ]

\* a plausible slip: the objective left as the last trial set it
optuna_reset_skipped(trainer) == trainer

\* run_hp_search_optuna._objective, line 137
optuna_reset(trainer) == [ trainer EXCEPT !.objective = None ]

\* run_hp_search_optuna._objective, line 140: the test of the fallback
optuna_needs_evaluate(trainer) == trainer.objective = None

\* run_hp_search_optuna._objective, line 142, with the metrics of trial t
optuna_compute(trainer, metrics) == [ trainer EXCEPT !.objective = Some(metrics[1]) ]

\* study.best_trial: the trial of the least or the greatest value, the
\* earlier one on a tie
best_trial(done, direction) ==
    CHOOSE i \in 1..Len(done) :
        \A j \in 1..Len(done) :
            \/ IF direction = "minimize" THEN done[i].value < done[j].value
                                          ELSE done[i].value > done[j].value
            \/ (done[i].value = done[j].value /\ i <= j)

\* Trainer.pop_callback(cls): the first registered callback of the class is
\* taken off the list and returned, None when there is none
pop_callback(trainer_callbacks, cls) ==
    LET at == { i \in 1..Len(trainer_callbacks) : trainer_callbacks[i] = cls }
    IN  IF at = {} THEN [ callbacks |-> trainer_callbacks, popped |-> None ]
        ELSE LET first == CHOOSE i \in at : \A j \in at : i <= j
             IN  [ callbacks |-> [ i \in 1..(Len(trainer_callbacks) - 1) |->
                                     IF i < first THEN trainer_callbacks[i]
                                     ELSE trainer_callbacks[i + 1] ],
                   popped |-> Some(trainer_callbacks[first]) ]

\* Trainer.add_callback(cb)
add_callback(trainer_callbacks, cb) == Append(trainer_callbacks, cb)

\* run_hp_search_ray runs as a chain of sections over a frame: the trainer,
\* kwargs, the popped callback, the exception raised if any, and the call of
\* ray.tune.run once made.  A section leaves a frame that raised as it is.
ray_enter(trainer, n_trials, direction, kwargs) ==
    [ trainer |-> trainer, n_trials |-> n_trials, direction |-> direction,
      kwargs |-> kwargs, raised |-> "none", why |-> "", tb_writer |-> None,
      tune_run |-> None ]

\* a plausible slip: the model left on the trainer
ray_pop_keeps_model(f) ==
    LET r == pop_callback(f.trainer.callbacks, "TensorBoardCallback")
    IN  [ f EXCEPT !.tb_writer = r.popped, !.trainer.callbacks = r.callbacks ]

\* lines 174-175
ray_pop(f) ==
    LET r == pop_callback(f.trainer.callbacks, "TensorBoardCallback")
    IN  [ f EXCEPT !.tb_writer = r.popped, !.trainer.callbacks = r.callbacks,
                   !.trainer.model = "None" ]

\* a plausible slip: a GPU asked for whatever the trainer has
ray_resources_always_gpu(f) ==
    LET kwargs == IF "resources_per_trial" \notin DOMAIN f.kwargs
                  THEN put(f.kwargs, "resources_per_trial", [ cpu |-> 1, gpu |-> 1 ])
                  ELSE f.kwargs
        resources == kwargs["resources_per_trial"]
        gpus_per_trial == IF "gpu" \in DOMAIN resources THEN resources["gpu"] ELSE 0
    IN  [ f EXCEPT !.kwargs = kwargs, !.trainer.args._n_gpu = gpus_per_trial ]

\* lines 177-190
ray_resources(f) ==
    LET kwargs == IF "resources_per_trial" \notin DOMAIN f.kwargs
                  THEN put(f.kwargs, "resources_per_trial",
                           IF f.trainer.args.n_gpu > 0
                           THEN [ cpu |-> 1, gpu |-> 1 ]
                           ELSE [ cpu |-> 1 ])
                  ELSE f.kwargs
        resources == kwargs["resources_per_trial"]
        gpus_per_trial == IF "gpu" \in DOMAIN resources THEN resources["gpu"] ELSE 0
    IN  [ f EXCEPT !.kwargs = kwargs, !.trainer.args._n_gpu = gpus_per_trial ]

\* lines 193-196
ray_reporter(f) ==
    IF "progress_reporter" \notin DOMAIN f.kwargs
    THEN [ f EXCEPT !.kwargs = put(@, "progress_reporter", "CLIReporter") ]
    ELSE f

\* lines 197-205: the warning's message reads kwargs['keep_checkpoint_num'],
\* a key kwargs does not have
ray_checkpoints(f) ==
    IF "keep_checkpoints_num" \in DOMAIN f.kwargs /\ f.kwargs["keep_checkpoints_num"] > 0
    THEN LET f1 == [ f EXCEPT !.trainer.use_tune_checkpoints = TRUE ]
         IN  IF f.kwargs["keep_checkpoints_num"] > 1
             THEN raise(f1, "KeyError", "keep_checkpoint_num")
             ELSE f1
    ELSE f

\* the schedulers that need intermediate reports (line 221)
ReportingSchedulers ==
    { "ASHAScheduler", "MedianStoppingRule", "HyperBandForBOHB", "PopulationBasedTraining" }

\* lines 206-230
ray_scheduler(f) ==
    IF f.raised # "none" THEN f
    ELSE IF "scheduler" \in DOMAIN f.kwargs
            /\ f.kwargs["scheduler"] \in ReportingSchedulers
            /\ (~f.trainer.args.do_eval \/ f.trainer.args.evaluation_strategy = "no")
         THEN raise(f, "RuntimeError", "scheduler")
         ELSE f

\* lines 232-237: ray.tune.run is called with the trainer as it is now
ray_tune_run(f) ==
    IF f.raised # "none" THEN f
    ELSE [ f EXCEPT !.tune_run = Some([ local_trainer |-> f.trainer,
                                        num_samples |-> f.n_trials,
                                        kwargs |-> f.kwargs ]) ]

\* run_hp_search_ray up to its call of ray.tune.run (lines 171-237)
run_hp_search_ray(trainer, n_trials, direction, kwargs) ==
    ray_tune_run(ray_scheduler(ray_checkpoints(ray_reporter(ray_resources(ray_pop(
        ray_enter(trainer, n_trials, direction, kwargs)))))))

\* lines 240-241, once ray.tune.run has returned
ray_restore(f) ==
    IF f.tb_writer # None
    THEN [ f EXCEPT !.trainer.callbacks = add_callback(@, f.tb_writer[1]) ]
    ELSE f

\* run_hp_search_ray._objective (lines 156-169), one invocation in a worker;
\* reports are the tune.report calls made while it ran, those of the
\* training loop first
ray_objective(local_trainer, t, records, checkpoint_dir) ==
    LET checkpoint == IF checkpoint_dir = "with_checkpoint" THEN "checkpoint-1" ELSE "None"
        t0 == [ local_trainer EXCEPT !.objective = None ]
        t1 == train(t0, t, records)
        reported == IF records
                    THEN << [ objective |-> train_objective(t), done |-> FALSE ] >>
                    ELSE <<>>
    IN  IF t1.objective = None
        THEN [ trainer |-> [ t1 EXCEPT !.objective = Some(eval_objective(t)) ],
               checkpoint |-> checkpoint,
               evaluated |-> TRUE, saved |-> TRUE,
               reports |-> reported
                           \o << [ objective |-> eval_objective(t), done |-> TRUE ] >> ]
        ELSE [ trainer |-> t1, checkpoint |-> checkpoint,
               evaluated |-> FALSE, saved |-> FALSE, reports |-> reported ]

\* the Trainers a search runs on: their callbacks (a class at most once, as
\* the Trainer registers them from report_to), GPUs and evaluation settings;
\* args.n_gpu is the number of GPUs before the search changes it
SearchTrainers ==
    { [ model |-> "model", callbacks |-> cbs,
        args |-> [ n_gpu |-> n, _n_gpu |-> n, do_eval |-> e, evaluation_strategy |-> es ],
        use_tune_checkpoints |-> FALSE, objective |-> None ] :
        cbs \in { <<>>, << "WandbCallback", "TensorBoardCallback" >>,
                  << "TensorBoardCallback", "ProgressCallback" >> },
        n \in { 0, 2 }, e \in BOOLEAN, es \in { "no", "steps" } }

Directions == { "minimize", "maximize" }

\* kwargs of run_hp_search_ray, built from what the caller passes
ResourcesKwargs ==
    { EmptyDict, put(EmptyDict, "resources_per_trial", [ cpu |-> 2 ]),
      put(EmptyDict, "resources_per_trial", [ cpu |-> 1, gpu |-> 3 ]) }
CheckpointsKwargs ==
    { EmptyDict } \cup { put(EmptyDict, "keep_checkpoints_num", k) : k \in 0..2 }
SchedulerKwargs ==
    { EmptyDict } \cup
    { put(EmptyDict, "scheduler", c) : c \in ReportingSchedulers \cup { "FIFOScheduler" } }
RayKwargs ==
    { merge(merge(r, c), sc) :
        r \in ResourcesKwargs, c \in CheckpointsKwargs, sc \in SchedulerKwargs }

\* what ray.tune hands an _objective invocation as checkpoint_dir
CheckpointDirArgs == { "None", "with_checkpoint" }

----------------------------------------------------------------------------
(* PixtralProcessor as tests/models/pixtral/test_processor_pixtral.py      *)
(* exercises it.  A prompt is the tuple of its pieces, the placeholder     *)
(* "[IMG]" among them; the tokenizer of the checkpoint is the table of the *)
(* pieces the test prompts are made of, read off the expected arrays.      *)

MaxPrompt == 3      \* pieces of a prompt besides the test prompts

\* the ids of the image tokens in the expected arrays (lines 125-126)
IMG == 10
IMG_BREAK == 12
IMG_END == 13

\* the tokenizer of hf-internal-testing/pixtral-12b on the pieces
Vocabulary(piece) ==
    CASE piece = "USER" -> << 21510 >>
      [] piece = ":" -> << 1058 >>
      [] piece = " " -> << 1032 >>
      [] piece = "[IMG]" -> << IMG >>
      [] piece = "[IMG_BREAK]" -> << IMG_BREAK >>
      [] piece = "[IMG_END]" -> << IMG_END >>
      [] piece = "<newline>" -> << 1010 >>
      [] piece = "What's" -> << 7493, 1681 >>
      [] piece = " the" -> << 1278 >>
      [] piece = " content" -> << 4701 >>
      [] piece = " of" -> << 1307 >>
      [] piece = " image" -> << 3937 >>
      [] piece = "?" -> << 1063 >>
      [] piece = " ASSISTANT" -> << 1349, 4290, 16002, 41150 >>
      [] piece = " difference" -> << 6592 >>
      [] piece = " between" -> << 2396 >>
      [] piece = " these" -> << 2576 >>
      [] piece = " two" -> << 2295 >>
      [] piece = " images" -> << 8061 >>

RECURSIVE tokenize(_)
tokenize(pieces) ==
    IF pieces = <<>> THEN <<>> ELSE Vocabulary(pieces[1]) \o tokenize(Tail(pieces))

\* prompt_string of test_processor_with_single_image (line 105)
prompt_single_image ==
    << "USER", ":", " ", "[IMG]", "<newline>", "What's", " the", " content", " of", " the",
       " image", "?", " ASSISTANT", ":" >>

\* prompt_string of test_processor_with_multiple_images_single_list (line 153)
prompt_multiple_images ==
    << "USER", ":", " ", "[IMG]", "[IMG]", "<newline>", "What's", " the", " difference",
       " between", " these", " two", " images", "?", " ASSISTANT", ":" >>

\* the expected input_ids of lines 126 and 146
expected_single_image ==
    << 21510, 1058, 1032, 10, 10, 12, 10, 10, 13, 1010, 7493, 1681, 1278, 4701, 1307, 1278,
       3937, 1063, 1349, 4290, 16002, 41150, 1058 >>

\* the expected input_ids of lines 173, 192, 226 and 246
expected_multiple_images ==
    << 21510, 1058, 1032, 10, 10, 12, 10, 10, 13, 10, 10, 12, 10, 10, 13, 1010, 7493, 1681,
       1278, 6592, 2396, 2576, 2295, 8061, 1063, 1349, 4290, 16002, 41150, 1058 >>

\* setUpClass (lines 41-47): the images and the URLs they are fetched from
Images == { "image_0", "image_1", "image_2" }
\* a plausible slip: every image fetched from the first URL
url_of_first(image) == "url_0"

url_of(image) ==
    CASE image = "image_0" -> "url_0" [] image = "image_1" -> "url_1"
      [] image = "image_2" -> "url_2"

\* the image behind a URL
load_image(url) == CHOOSE image \in Images : url_of(image) = url

\* an images argument entry: the image itself or its URL
fetch(given) == IF given.kind = "url" THEN load_image(given.ref) ELSE given.ref

\* the patch grid of the tests' images under the tests' size and patch_size
\* (lines 108-109): two rows of two patches
TestGrid == [ rows |-> 2, cols |-> 2 ]

\* the pieces of one row of an image: cols placeholders and the row's end
RECURSIVE image_row(_, _)
image_row(cols, last) ==
    IF cols = 0 THEN << IF last THEN "[IMG_END]" ELSE "[IMG_BREAK]" >>
    ELSE << "[IMG]" >> \o image_row(cols - 1, last)

\* a plausible slip: an [IMG_BREAK] after the last row too, before [IMG_END]
RECURSIVE image_rows_break_last(_, _)
image_rows_break_last(rows, cols) ==
    IF rows = 0 THEN << "[IMG_END]" >>
    ELSE image_row(cols, FALSE) \o image_rows_break_last(rows - 1, cols)

\* the pieces an image's placeholder is replaced by
RECURSIVE image_rows(_, _)
image_rows(rows, cols) ==
    IF rows = 1 THEN image_row(cols, TRUE)
    ELSE image_row(cols, FALSE) \o image_rows(rows - 1, cols)

\* the prompt with each placeholder replaced by the rows of its image
RECURSIVE expand(_, _, _)
expand(pieces, images, grid) ==
    IF pieces = <<>> THEN <<>>
    ELSE IF pieces[1] = "[IMG]"
    THEN image_rows(grid[images[1]].rows, grid[images[1]].cols)
         \o expand(Tail(pieces), Tail(images), grid)
    ELSE << pieces[1] >> \o expand(Tail(pieces), images, grid)

\* processor(text=..., images=...)["input_ids"][0]
PixtralProcessor(text, images, grid) ==
    tokenize(expand(text, [ i \in 1..Len(images) |-> fetch(images[i]) ], grid))

\* the prompts: those of the tests and short ones of any shape
PromptPieces == { "USER", "[IMG]", " the" }
Prompts ==
    { prompt_single_image, prompt_multiple_images }
    \cup UNION { [ 1..n -> PromptPieces ] : n \in 0..MaxPrompt }

placeholders(pieces) == Cardinality({ i \in 1..Len(pieces) : pieces[i] = "[IMG]" })

Grids == [ rows : 1..2, cols : 1..2 ]

----------------------------------------------------------------------------
(* The states of the parts a specification does not exercise.              *)

IdleLogs == d = <<>> /\ new_d = NotCalled
IdleReport == report_to = <<>> /\ callbacks = NotCalled
IdleHooks ==
    /\ cur_callback = NotCalled
    /\ cur_state = NotCalled
    /\ sdk = NotCalled
    /\ trace = <<>>
    /\ last_hook = NotCalled
IdleSearch ==
    /\ hp_trainer = NotCalled
    /\ hp_call = NotCalled
    /\ hp_jobs = <<>>
    /\ hp_done = <<>>
IdlePixtral ==
    /\ px_text = <<>>
    /\ px_images = <<>>
    /\ px_grid = <<>>
    /\ px_inputs = [ image |-> None, url |-> None ]
IdleMLflow ==
    /\ ml_input = <<>>
    /\ ml_call = NotCalled
IdleCallbacks ==
    /\ installed = {}
    /\ os_environ = [ WANDB_DISABLED |-> "unset", WANDB_LOG_MODEL |-> "unset",
                      COMET_MODE |-> "unset", HF_MLFLOW_LOG_ARTIFACTS |-> "unset" ]
    /\ comet_api_key = FALSE
    /\ new_callback = NotCalled

----------------------------------------------------------------------------
(* The calls on the flag and deepspeed_init, as actions.                   *)

\* the last deepspeed_init ran on a config without zero_optimization while
\* the flag was True, and nothing assigned the flag since
KeptByInit ==
    /\ ds_call # NotCalled
    /\ "zero_optimization" \notin DOMAIN ds_call[1].trainer.args.deepspeed.value
    /\ ds_call[1].frame.raised = "none"
    /\ ds_call[1].flag_before = "True"
    /\ zero3_set_by = ds_call[1].set_by_before

\* is_deepspeed_zero3_enabled()
CallIsDeepspeedZero3Enabled ==
    LET r == is_deepspeed_zero3_enabled(_is_deepspeed_zero3_enabled, sys_argv, disk_files)
    IN  /\ _is_deepspeed_zero3_enabled' = r.flag
        /\ zero3_call' = << [ set_by |-> zero3_set_by, ret |-> r.ret, raised |-> r.raised,
                              read_argv |-> r.read_argv, after_kept |-> KeptByInit ] >>
        /\ zero3_set_by' = IF r.read_argv THEN [ by |-> "discovery", value |-> r.ret ]
                           ELSE zero3_set_by
        /\ UNCHANGED <<sys_argv, disk_files, cur_trainer, ds_call>>

\* deepspeed_zero3_enable(enable)
CallDeepspeedZero3Enable(enable) ==
    /\ _is_deepspeed_zero3_enabled' = deepspeed_zero3_enable(enable)
    /\ zero3_set_by' = [ by |-> "enable", value |-> IF enable THEN "True" ELSE "False" ]
    /\ UNCHANGED <<sys_argv, disk_files, cur_trainer, zero3_call, ds_call>>

\* what args.deepspeed holds when deepspeed_init is left: every write of
\* deepspeed_init to config is a write to the caller's dict when the two
\* are one object
held_after(t, f) ==
    IF f.shared THEN [ t.args.deepspeed EXCEPT !.value = f.config ] ELSE t.args.deepspeed

\* deepspeed_init(t, num_training_steps, resume_from_checkpoint)
CallDeepspeedInit(t, num_training_steps, resume_from_checkpoint) ==
    LET f == deepspeed_init(t, num_training_steps, resume_from_checkpoint,
                            _is_deepspeed_zero3_enabled, disk_files)
    IN  /\ _is_deepspeed_zero3_enabled' = f.flag
        /\ cur_trainer' = [t EXCEPT !.optimizer = f.trainer_optimizer,
                                !.lr_scheduler = f.trainer_lr_scheduler,
                                !.args.deepspeed = held_after(t, f)]
        /\ zero3_set_by' = IF f.enabled_with # "None"
                           THEN [ by |-> "deepspeed_init", value |-> f.enabled_with ]
                           ELSE zero3_set_by
        /\ ds_call' = << [ trainer |-> t,
                           num_training_steps |-> num_training_steps,
                           resume_from_checkpoint |-> resume_from_checkpoint,
                           flag_before |-> _is_deepspeed_zero3_enabled,
                           again |-> ds_call # NotCalled,
                           set_by_before |-> zero3_set_by,
                           frame |-> f ] >>
        /\ UNCHANGED <<sys_argv, disk_files, zero3_call>>

----------------------------------------------------------------------------
(* Specification of deepspeed_init on one Trainer: the Trainer is drawn,   *)
(* the flag may be set by hand, deepspeed_init is called, again and again. *)

InitDSInit ==
    /\ IdleLogs
    /\ IdleReport
    /\ IdleCallbacks
    /\ IdleHooks
    /\ IdleSearch
    /\ IdlePixtral
    /\ IdleMLflow
    /\ _is_deepspeed_zero3_enabled = "None"
    /\ sys_argv = <<>>
    /\ disk_files = [ n \in FileNames |-> [ state |-> "missing", json |-> EmptyDict ] ]
    /\ cur_trainer \in DSInitTrainers
    /\ zero3_set_by = NoSetter
    /\ zero3_call = NotCalled
    /\ ds_call = NotCalled

NextDSInit ==
    \/ \E enable \in BOOLEAN :
          CallDeepspeedZero3Enable(enable) /\ UNCHANGED <<logVars, regVars, cbVars, hookVars, hpVars, pxVars, mlVars>>
    \/ \E n \in NumTrainingSteps, r \in ResumeArgs :
          CallDeepspeedInit(cur_trainer, n, r) /\ UNCHANGED <<logVars, regVars, cbVars, hookVars, hpVars, pxVars, mlVars>>

SpecDSInit == InitDSInit /\ [][NextDSInit]_vars

(* Specification of the flag: a process with its sys.argv and config file, *)
(* in which the flag is read, set by hand, and set by deepspeed_init on    *)
(* Trainers of any of the configs.                                         *)

InitFlag ==
    /\ IdleLogs
    /\ IdleReport
    /\ IdleCallbacks
    /\ IdleHooks
    /\ IdleSearch
    /\ IdlePixtral
    /\ IdleMLflow
    /\ _is_deepspeed_zero3_enabled = "None"
    /\ sys_argv \in ArgvLists
    /\ disk_files \in [ FileNames -> FileStates ]
    /\ cur_trainer = IdleTrainer
    /\ zero3_set_by = NoSetter
    /\ zero3_call = NotCalled
    /\ ds_call = NotCalled

NextFlag ==
    \/ CallIsDeepspeedZero3Enabled /\ UNCHANGED <<logVars, regVars, cbVars, hookVars, hpVars, pxVars, mlVars>>
    \/ \E enable \in BOOLEAN :
          CallDeepspeedZero3Enable(enable) /\ UNCHANGED <<logVars, regVars, cbVars, hookVars, hpVars, pxVars, mlVars>>
    \/ \E t \in FlagTrainers, n \in NumTrainingSteps :
          CallDeepspeedInit(t, n, "None") /\ UNCHANGED <<logVars, regVars, cbVars, hookVars, hpVars, pxVars, mlVars>>

SpecFlag == InitFlag /\ [][NextFlag]_vars

----------------------------------------------------------------------------
(* Specification of rewrite_logs: a log record is drawn, the call made.    *)

InitLogs ==
    /\ d \in LogRecords
    /\ new_d = NotCalled
    /\ IdleReport
    /\ IdleDS
    /\ IdleCallbacks
    /\ IdleHooks
    /\ IdleSearch
    /\ IdlePixtral
    /\ IdleMLflow

CallRewriteLogs ==
    /\ new_d = NotCalled
    /\ new_d' = <<rewrite_logs(d)>>
    /\ UNCHANGED <<d, regVars, dsVars, cbVars, hookVars, hpVars, pxVars, mlVars>>

NextLogs == CallRewriteLogs

SpecLogs == InitLogs /\ [][NextLogs]_vars

(* Specification of the registry lookup.                                   *)

InitReport ==
    /\ report_to \in ReportLists
    /\ callbacks = NotCalled
    /\ IdleLogs
    /\ IdleDS
    /\ IdleCallbacks
    /\ IdleHooks
    /\ IdleSearch
    /\ IdlePixtral
    /\ IdleMLflow

CallGetReportingIntegrationCallbacks ==
    /\ callbacks = NotCalled
    /\ callbacks' = <<get_reporting_integration_callbacks(report_to)>>
    /\ UNCHANGED <<report_to, logVars, dsVars, cbVars, hookVars, hpVars, pxVars, mlVars>>

NextReport == CallGetReportingIntegrationCallbacks

SpecReport == InitReport /\ [][NextReport]_vars

----------------------------------------------------------------------------
(* Specification of the constructors: a process with its modules and its   *)
(* environment, in which callbacks are constructed.                        *)

InitCallbacks ==
    /\ IdleLogs
    /\ IdleReport
    /\ IdleDS
    /\ IdleHooks
    /\ IdleSearch
    /\ IdlePixtral
    /\ IdleMLflow
    /\ installed \in ModuleSets
    /\ os_environ \in Environments
    /\ comet_api_key \in BOOLEAN
    /\ new_callback = NotCalled

NewTensorBoardCallback ==
    /\ \E tb_writer \in PassedIn :
          new_callback' = << TensorBoardCallback(tb_writer, installed) >>
    /\ UNCHANGED <<installed, os_environ, comet_api_key, logVars, regVars, dsVars, hookVars, hpVars, pxVars, mlVars>>

NewWandbCallback ==
    /\ new_callback' = << WandbCallback(os_environ, installed) >>
    /\ UNCHANGED <<installed, os_environ, comet_api_key, logVars, regVars, dsVars, hookVars, hpVars, pxVars, mlVars>>

NewCometCallback ==
    /\ new_callback' = << CometCallback(os_environ, installed, comet_api_key) >>
    /\ UNCHANGED <<installed, os_environ, comet_api_key, logVars, regVars, dsVars, hookVars, hpVars, pxVars, mlVars>>

NewAzureMLCallback ==
    /\ \E azureml_run \in PassedIn :
          new_callback' = << AzureMLCallback(azureml_run, installed) >>
    /\ UNCHANGED <<installed, os_environ, comet_api_key, logVars, regVars, dsVars, hookVars, hpVars, pxVars, mlVars>>

NewMLflowCallback ==
    /\ new_callback' = << MLflowCallback(installed) >>
    /\ UNCHANGED <<installed, os_environ, comet_api_key, logVars, regVars, dsVars, hookVars, hpVars, pxVars, mlVars>>

NextCallbacks ==
    \/ NewTensorBoardCallback
    \/ NewWandbCallback
    \/ NewCometCallback
    \/ NewAzureMLCallback
    \/ NewMLflowCallback

SpecCallbacks == InitCallbacks /\ [][NextCallbacks]_vars

----------------------------------------------------------------------------
(* Specification of the hooks: one callback, constructed with success, on  *)
(* which the Trainer of one process calls hooks.                           *)

InitHooks ==
    /\ IdleLogs
    /\ IdleReport
    /\ IdleDS
    /\ IdleSearch
    /\ IdlePixtral
    /\ IdleMLflow
    /\ \E setup \in HookSetups :
          /\ installed = setup.modules
          /\ os_environ = setup.environ
          /\ comet_api_key = TRUE
          /\ new_callback = << construct(setup) >>
          /\ sdk = [ wandb_run |-> setup.wandb_run, comet_experiment |-> "None",
                     mlflow_run |-> "None", writers |-> 0 ]
    /\ cur_callback = new_callback[1].instance[1]
    /\ cur_state \in HookStates
    /\ trace = <<>>
    /\ last_hook = NotCalled

\* the number of hooks called so far
hooks_called == IF last_hook = NotCalled THEN 0 ELSE last_hook[1].n

\* the Trainer calls one hook; the call itself is an event of the trace
CallHook(name, logs) ==
    /\ hooks_called < MaxHooks
    /\ last_hook # NotCalled => last_hook[1].name # "__del__"
    /\ LET before == Append(trace, Event(name, "hook", <<>>, NoValue))
           w == call_hook([ cb |-> cur_callback, sdk |-> sdk, trace |-> before ],
                          name, cur_state, logs, os_environ)
       IN  /\ cur_callback' = w.cb
           /\ sdk' = w.sdk
           /\ trace' = w.trace
           /\ last_hook' = << [ name |-> name, logs |-> logs, at |-> Len(before),
                                n |-> hooks_called + 1 ] >>
    /\ UNCHANGED <<cur_state, logVars, regVars, dsVars, cbVars, hpVars, pxVars, mlVars>>

\* the instance is collected
CallDel ==
    /\ hooks_called < MaxHooks
    /\ last_hook # NotCalled => last_hook[1].name # "__del__"
    /\ cur_callback.cls = "MLflowCallback"
    /\ LET before == Append(trace, Event("__del__", "hook", <<>>, NoValue))
           w == MLflowCallback_del([ cb |-> cur_callback, sdk |-> sdk, trace |-> before ])
       IN  /\ cur_callback' = w.cb
           /\ sdk' = w.sdk
           /\ trace' = w.trace
           /\ last_hook' = << [ name |-> "__del__", logs |-> <<>>, at |-> Len(before),
                                n |-> hooks_called + 1 ] >>
    /\ UNCHANGED <<cur_state, logVars, regVars, dsVars, cbVars, hpVars, pxVars, mlVars>>

NextHooks ==
    \/ CallHook("on_init_end", <<>>)
    \/ CallHook("on_train_begin", <<>>)
    \/ \E logs \in HookLogs : CallHook("on_log", logs)
    \/ CallHook("on_train_end", <<>>)
    \/ CallDel

SpecHooks == InitHooks /\ [][NextHooks]_vars

----------------------------------------------------------------------------
(* Specification of the searches: one run_hp_search_optuna or              *)
(* run_hp_search_ray call on a Trainer.  Optuna runs n_jobs workers as     *)
(* threads on the one trainer, a step of a worker is a line of _objective; *)
(* Ray runs _objective in a worker on its copy of the trainer.             *)

InitSearch ==
    /\ IdleLogs
    /\ IdleReport
    /\ IdleDS
    /\ IdleCallbacks
    /\ IdleHooks
    /\ IdlePixtral
    /\ IdleMLflow
    /\ hp_trainer \in SearchTrainers
    /\ hp_call = NotCalled
    /\ hp_jobs = <<>>
    /\ hp_done = <<>>

OtherVars == <<logVars, regVars, dsVars, cbVars, hookVars, pxVars, mlVars>>

\* the trials handed out so far
trials_started ==
    Len(hp_done) + Cardinality({ j \in 1..Len(hp_jobs) : hp_jobs[j].pc # "idle" })

\* run_hp_search_optuna, lines 145-148: study.optimize starts its workers
CallRunHpSearchOptuna(direction, n_jobs) ==
    /\ hp_call = NotCalled
    /\ hp_call' = << [ backend |-> "optuna", n_trials |-> MaxTrials, direction |-> direction,
                       n_jobs |-> n_jobs, pc |-> "running", frame |-> None,
                       before |-> Some(hp_trainer), passed |-> EmptyDict,
                       local_trainer |-> None, best_run |-> None ] >>
    /\ hp_jobs' = [ j \in 1..n_jobs |-> IdleJob ]
    /\ UNCHANGED <<hp_trainer, hp_done, OtherVars>>

Running(backend) == hp_call # NotCalled /\ hp_call[1].backend = backend /\ hp_call[1].pc = "running"

\* a worker takes the next trial: lines 132-137, checkpoint_dir is None
OptunaStart(j) ==
    /\ Running("optuna")
    /\ hp_jobs[j].pc = "idle"
    /\ trials_started < hp_call[1].n_trials
    /\ hp_trainer' = optuna_reset(hp_trainer)
    /\ hp_jobs' = [ hp_jobs EXCEPT ![j] = [ IdleJob EXCEPT !.pc = "train",
                                                         !.trial = trials_started + 1 ] ]
    /\ UNCHANGED <<hp_call, hp_done, OtherVars>>

\* line 138
OptunaTrain(j, records) ==
    /\ Running("optuna")
    /\ hp_jobs[j].pc = "train"
    /\ hp_trainer' = train(hp_trainer, hp_jobs[j].trial, records)
    /\ hp_jobs' = [ hp_jobs EXCEPT ![j].pc = "check", ![j].recorded = records ]
    /\ UNCHANGED <<hp_call, hp_done, OtherVars>>

\* line 140
OptunaCheck(j) ==
    /\ Running("optuna")
    /\ hp_jobs[j].pc = "check"
    /\ hp_jobs' = [ hp_jobs EXCEPT ![j].pc =
                      IF optuna_needs_evaluate(hp_trainer) THEN "evaluate" ELSE "return" ]
    /\ UNCHANGED <<hp_trainer, hp_call, hp_done, OtherVars>>

\* line 141
OptunaEvaluate(j) ==
    /\ Running("optuna")
    /\ hp_jobs[j].pc = "evaluate"
    /\ hp_jobs' = [ hp_jobs EXCEPT ![j].pc = "compute", ![j].evaluated = TRUE,
                                   ![j].metrics = Some(eval_objective(hp_jobs[j].trial)) ]
    /\ UNCHANGED <<hp_trainer, hp_call, hp_done, OtherVars>>

\* line 142
OptunaCompute(j) ==
    /\ Running("optuna")
    /\ hp_jobs[j].pc = "compute"
    /\ hp_trainer' = optuna_compute(hp_trainer, hp_jobs[j].metrics)
    /\ hp_jobs' = [ hp_jobs EXCEPT ![j].pc = "return" ]
    /\ UNCHANGED <<hp_call, hp_done, OtherVars>>

\* line 143: what _objective returns is the trial's value in the study; a
\* returned None, which is no objective of any trial, is written 0
OptunaReturn(j) ==
    /\ Running("optuna")
    /\ hp_jobs[j].pc = "return"
    /\ hp_done' = Append(hp_done,
                         [ trial |-> hp_jobs[j].trial, recorded |-> hp_jobs[j].recorded,
                           evaluated |-> hp_jobs[j].evaluated,
                           value |-> IF hp_trainer.objective = None THEN 0
                                     ELSE hp_trainer.objective[1],
                           checkpoint |-> "None", saved |-> FALSE, reports |-> <<>> ])
    /\ hp_jobs' = [ hp_jobs EXCEPT ![j] = IdleJob ]
    /\ UNCHANGED <<hp_trainer, hp_call, OtherVars>>

\* lines 149-150
OptunaFinish ==
    /\ Running("optuna")
    /\ Len(hp_done) = hp_call[1].n_trials
    /\ LET best == hp_done[best_trial(hp_done, hp_call[1].direction)]
       IN  hp_call' = << [ hp_call[1] EXCEPT !.pc = "returned",
                             !.best_run = Some([ run_id |-> best.trial,
                                                 objective |-> best.value ]) ] >>
    /\ UNCHANGED <<hp_trainer, hp_jobs, hp_done, OtherVars>>

\* run_hp_search_ray, lines 171-237: it raises or is inside ray.tune.run
CallRunHpSearchRay(direction, kwargs) ==
    /\ hp_call = NotCalled
    /\ LET f == run_hp_search_ray(hp_trainer, MaxTrials, direction, kwargs)
       IN  /\ hp_trainer' = f.trainer
           /\ hp_call' = << [ backend |-> "ray", n_trials |-> MaxTrials,
                              direction |-> direction, n_jobs |-> 1,
                              pc |-> IF f.raised = "none" THEN "running" ELSE "raised",
                              frame |-> Some(f), before |-> Some(hp_trainer),
                              passed |-> kwargs,
                              local_trainer |-> Some(f.trainer), best_run |-> None ] >>
    /\ UNCHANGED <<hp_jobs, hp_done, OtherVars>>

\* ray.tune runs one trial: an _objective invocation on the worker's trainer
RayTrial(records, checkpoint_dir) ==
    /\ Running("ray")
    /\ Len(hp_done) < hp_call[1].n_trials
    /\ LET t == Len(hp_done) + 1
           r == ray_objective(hp_call[1].local_trainer[1], t, records, checkpoint_dir)
       IN  /\ hp_call' = << [ hp_call[1] EXCEPT !.local_trainer = Some(r.trainer) ] >>
           /\ hp_done' = Append(hp_done,
                                [ trial |-> t, recorded |-> records,
                                  evaluated |-> r.evaluated,
                                  value |-> r.trainer.objective[1],
                                  checkpoint |-> r.checkpoint, saved |-> r.saved,
                                  reports |-> r.reports ])
    /\ UNCHANGED <<hp_trainer, hp_jobs, OtherVars>>

\* the objective a trial reported last, best_trial.last_result["objective"]
last_result(done) ==
    [ i \in 1..Len(done) |->
        [ trial |-> done[i].trial, value |-> done[i].reports[Len(done[i].reports)].objective ] ]

\* ray.tune.run returns: lines 238-242
RayFinish ==
    /\ Running("ray")
    /\ Len(hp_done) = hp_call[1].n_trials
    /\ LET f == ray_restore(hp_call[1].frame[1])
           results == last_result(hp_done)
           best == results[best_trial(results, hp_call[1].direction)]
       IN  /\ hp_trainer' = f.trainer
           /\ hp_call' = << [ hp_call[1] EXCEPT !.pc = "returned", !.frame = Some(f),
                                !.best_run = Some([ run_id |-> best.trial,
                                                    objective |-> best.value ]) ] >>
    /\ UNCHANGED <<hp_jobs, hp_done, OtherVars>>

NextSearch ==
    \/ \E direction \in Directions, n_jobs \in 1..2 : CallRunHpSearchOptuna(direction, n_jobs)
    \/ \E j \in 1..Len(hp_jobs) : OptunaStart(j)
    \/ \E j \in 1..Len(hp_jobs), records \in BOOLEAN : OptunaTrain(j, records)
    \/ \E j \in 1..Len(hp_jobs) : OptunaCheck(j)
    \/ \E j \in 1..Len(hp_jobs) : OptunaEvaluate(j)
    \/ \E j \in 1..Len(hp_jobs) : OptunaCompute(j)
    \/ \E j \in 1..Len(hp_jobs) : OptunaReturn(j)
    \/ OptunaFinish
    \/ \E direction \in Directions, kwargs \in RayKwargs : CallRunHpSearchRay(direction, kwargs)
    \/ \E records \in BOOLEAN, checkpoint_dir \in CheckpointDirArgs :
          RayTrial(records, checkpoint_dir)
    \/ RayFinish

SpecSearch == InitSearch /\ [][NextSearch]_vars

----------------------------------------------------------------------------
(* Specification of the processor tests: a prompt, as many images as it    *)
(* has placeholders, and the two calls a test makes, with the images and   *)
(* with their URLs.                                                        *)

InitPixtral ==
    /\ IdleLogs
    /\ IdleReport
    /\ IdleDS
    /\ IdleCallbacks
    /\ IdleHooks
    /\ IdleSearch
    /\ IdleMLflow
    /\ px_text \in Prompts
    /\ px_images \in [ 1..placeholders(px_text) -> Images ]
    /\ px_grid \in [ Images -> Grids ]
    /\ px_inputs = [ image |-> None, url |-> None ]

\* inputs_image = processor(text=prompt_string, images=[image, ...])
CallProcessorWithImages ==
    /\ px_inputs.image = None
    /\ px_inputs' = [ px_inputs EXCEPT !.image =
          Some(PixtralProcessor(px_text,
                   [ i \in 1..Len(px_images) |-> [ kind |-> "image", ref |-> px_images[i] ] ],
                   px_grid)) ]
    /\ UNCHANGED <<px_text, px_images, px_grid, logVars, regVars, dsVars, cbVars, hookVars, hpVars, mlVars>>

\* inputs_url = processor(text=prompt_string, images=[url, ...])
CallProcessorWithUrls ==
    /\ px_inputs.url = None
    /\ px_inputs' = [ px_inputs EXCEPT !.url =
          Some(PixtralProcessor(px_text,
                   [ i \in 1..Len(px_images) |->
                       [ kind |-> "url", ref |-> url_of(px_images[i]) ] ],
                   px_grid)) ]
    /\ UNCHANGED <<px_text, px_images, px_grid, logVars, regVars, dsVars, cbVars, hookVars, hpVars, mlVars>>

NextPixtral == CallProcessorWithImages \/ CallProcessorWithUrls

SpecPixtral == InitPixtral /\ [][NextPixtral]_vars

----------------------------------------------------------------------------
(* The parameters MLflowCallback.setup logs (lines 865-885), in detail.    *)
(* A dict is the tuple of its <<key, value>> items in insertion order; a   *)
(* value is [type, val], an int or a str.                                  *)

MaxParams == 2      \* entries of args.to_dict() and of model.config.to_dict()

DecimalDigits == << "0", "1", "2", "3", "4", "5", "6", "7", "8", "9" >>

\* str(n) of an int n >= 0
RECURSIVE str_int(_)
str_int(n) ==
    IF n < 10 THEN << DecimalDigits[n + 1] >>
    ELSE str_int(n \div 10) \o << DecimalDigits[(n % 10) + 1] >>

\* str(value), line 874
str(value) == IF value.type = "int" THEN str_int(value.val) ELSE value.val

dict_keys(items) == { items[i][1] : i \in 1..Len(items) }
dict_get(items, key) == items[CHOOSE i \in 1..Len(items) : items[i][1] = key][2]

\* {**first, **second}, line 870: the keys of first keep their places and
\* take the values second has for them, the other keys of second follow
dict_unpack(first, second) ==
    [ i \in 1..Len(first) |->
        IF first[i][1] \in dict_keys(second)
        THEN << first[i][1], dict_get(second, first[i][1]) >>
        ELSE first[i] ]
    \o SelectSeq(second, LAMBDA item : item[1] \notin dict_keys(first))

\* a plausible slip: the config's value kept on a shared key
mlflow_combined_dict_config_wins(args_dict, model_config) ==
    IF model_config # None THEN dict_unpack(args_dict, model_config[1]) ELSE args_dict

\* lines 866-870; model_config is None for a model without a config
mlflow_combined_dict(args_dict, model_config) ==
    IF model_config # None THEN dict_unpack(model_config[1], args_dict) ELSE args_dict

\* the loop of lines 872-881 over list(combined_dict.items()): r holds the
\* items kept so far and the names warned about
RECURSIVE mlflow_drop_long(_, _, _)
mlflow_drop_long(r, items, max_len) ==
    IF items = <<>> THEN r
    ELSE mlflow_drop_long(
             IF Len(str(Head(items)[2])) > max_len
             THEN [ r EXCEPT !.warned = Append(@, Head(items)[1]) ]
             ELSE [ r EXCEPT !.combined_dict = Append(@, Head(items)) ],
             Tail(items), max_len)

\* combined_dict_items[i : i + n], a slice that stops at the end of the list
slice(items, i, n) ==
    SubSeq(items, i + 1, IF i + n < Len(items) THEN i + n ELSE Len(items))

\* the loop of lines 883-885 over range(0, len(combined_dict_items), n),
\* from i on: the log_params calls made
RECURSIVE mlflow_log_params(_, _, _)
mlflow_log_params(combined_dict_items, i, n) ==
    IF i >= Len(combined_dict_items) THEN <<>>
    ELSE << slice(combined_dict_items, i, n) >>
         \o mlflow_log_params(combined_dict_items, i + n, n)

\* MLflowCallback.setup (lines 850-886) with its arguments: what the call
\* did to the instance and what it called on mlflow
MLflowCallback_setup_detail(input) ==
    IF input.is_world_process_zero
    THEN LET kept == mlflow_drop_long(
                         [ combined_dict |-> <<>>, warned |-> <<>> ],
                         mlflow_combined_dict(input.args, input.model_config),
                         input.MAX_PARAM_VAL_LENGTH)
         IN  [ start_run |-> TRUE, warned |-> kept.warned,
               log_params |-> mlflow_log_params(kept.combined_dict, 0,
                                                input.MAX_PARAMS_TAGS_PER_BATCH),
               initialized |-> TRUE ]
    ELSE [ start_run |-> FALSE, warned |-> <<>>, log_params |-> <<>>, initialized |-> TRUE ]

\* the values of parameters: str() of them is 1, 2 and 3 characters long
ParamValues ==
    { [ type |-> "int", val |-> 7 ], [ type |-> "str", val |-> << "a", "b" >> ],
      [ type |-> "int", val |-> 123 ] }
ConfigValues == { [ type |-> "int", val |-> 40 ], [ type |-> "str", val |-> << "g" >> ] }

ArgsKeys == { "seed", "lr", "fp16" }
ConfigKeys == { "lr", "fp16", "vocab" }

\* the dicts of at most MaxParams items with keys among keys
Dicts(keys, values) ==
    { items \in UNION { [ 1..n -> keys \X values ] : n \in 0..MaxParams } :
        \A i, j \in 1..Len(items) : items[i][1] = items[j][1] => i = j }

\* mlflow.utils.validation's limits as the instance read them (lines 843-844),
\* small ones
MLflowInputs ==
    [ args : Dicts(ArgsKeys, ParamValues),
      model_config : { None } \cup { Some(c) : c \in Dicts(ConfigKeys, ConfigValues) },
      is_world_process_zero : BOOLEAN,
      MAX_PARAM_VAL_LENGTH : { 1, 2 },
      MAX_PARAMS_TAGS_PER_BATCH : { 1, 2 } ]

----------------------------------------------------------------------------
(* Specification of MLflowCallback.setup: one call on a fresh instance.    *)

InitMLflow ==
    /\ IdleLogs
    /\ IdleReport
    /\ IdleDS
    /\ IdleCallbacks
    /\ IdleHooks
    /\ IdleSearch
    /\ IdlePixtral
    /\ ml_input \in MLflowInputs
    /\ ml_call = NotCalled

\* self.setup(args, state, model)
CallMLflowSetup ==
    /\ ml_call = NotCalled
    /\ ml_call' = << MLflowCallback_setup_detail(ml_input) >>
    /\ UNCHANGED <<ml_input, logVars, regVars, dsVars, cbVars, hookVars, hpVars, pxVars>>

NextMLflow == CallMLflowSetup

SpecMLflow == InitMLflow /\ [][NextMLflow]_vars

----------------------------------------------------------------------------
(* Claims about rewrite_logs and the registry lookup.                      *)

\* the output key the log-record contract gives an input key
ContractKey(k) ==
    IF Len(k) >= 5 /\ SubSeq(k, 1, 5) = <<"e", "v", "a", "l", "_">>
    THEN <<"e", "v", "a", "l", "/">> \o SubSeq(k, 6, Len(k))
    ELSE <<"t", "r", "a", "i", "n", "/">> \o k

\* C1: rewrite_logs(d) holds the entry 'eval/' + k[5:] -> d[k] for every key k
\* of d that starts with 'eval_', the entry 'train/' + k -> d[k] for every
\* other key, and no other entry; the values are those of d.
C1_RewriteLogsEntries ==
    new_d # NotCalled =>
        LET out == new_d[1]
        IN  /\ \A i \in 1..Len(d) :
                  \E j \in 1..Len(out) : out[j] = <<ContractKey(d[i][1]), d[i][2]>>
            /\ \A j \in 1..Len(out) :
                  \E i \in 1..Len(d) : out[j] = <<ContractKey(d[i][1]), d[i][2]>>
            /\ \A i, j \in 1..Len(out) : out[i][1] = out[j][1] => i = j

\* a record with an eval_ key and another key has been rewritten
C1_Witness ==
    /\ new_d # NotCalled
    /\ Len(d) = 2
    /\ \E i \in 1..2 : startswith(d[i][1], eval_prefix) /\ Len(d[i][1]) > 5
    /\ \E i \in 1..2 : ~startswith(d[i][1], eval_prefix)
    /\ Len(new_d[1]) = 2

ValidNames == { "azure_ml", "comet_ml", "mlflow", "tensorboard", "wandb" }

AllValid(names) == \A i \in 1..Len(names) : names[i] \in ValidNames

\* C2: with every name of report_to valid, the call returns a list as long as
\* report_to whose i-th element is the class mapped to the i-th name.
C2_CallbacksInInputOrder ==
    (callbacks # NotCalled /\ AllValid(report_to)) =>
        LET r == callbacks[1]
        IN  /\ r.raised = "none"
            /\ Len(r.returned) = Len(report_to)
            /\ \A i \in 1..Len(report_to) :
                  r.returned[i] = INTEGRATION_TO_CALLBACK[report_to[i]]

\* a list with a repeated name, not in the mapping's order, has been looked up
C2_Witness ==
    /\ callbacks # NotCalled
    /\ report_to = <<"wandb", "mlflow", "wandb">>
    /\ callbacks[1].returned = <<"WandbCallback", "MLflowCallback", "WandbCallback">>

\* C3: with a name outside the valid set anywhere in report_to, the call
\* raises ValueError, returns no list, and its message names the first
\* invalid entry and lists the five valid names.
C3_UnknownNameRaises ==
    (callbacks # NotCalled /\ ~AllValid(report_to)) =>
        LET r == callbacks[1]
            first == CHOOSE i \in 1..Len(report_to) :
                        /\ report_to[i] \notin ValidNames
                        /\ \A j \in 1..(i - 1) : report_to[j] \in ValidNames
        IN  /\ r.raised = "ValueError"
            /\ r.returned = <<>>
            /\ r.unsupported = report_to[first]
            /\ { r.supported[i] : i \in 1..Len(r.supported) } = ValidNames
            /\ Len(r.supported) = 5

\* the unknown name stands after a valid one, and another unknown name follows
C3_Witness ==
    /\ callbacks # NotCalled
    /\ report_to = <<"wandb", "bogus", "none">>
    /\ callbacks[1].raised = "ValueError"
    /\ callbacks[1].unsupported = "bogus"

----------------------------------------------------------------------------
(* Claims about deepspeed_init.  They read the last call, ds_call: the     *)
(* Trainer it was given and the frame it ended with.                       *)

\* the config the user handed over in args.deepspeed
UserConfig == ds_call[1].trainer.args.deepspeed.value

HasBatchKey(config) ==
    \E k \in { "train_batch_size", "train_micro_batch_size_per_gpu",
               "gradient_accumulation_steps" } : k \in DOMAIN config

\* (a) a DeepSpeed optimizer with the Trainer's scheduler
OptimizerWithoutScheduler(config) ==
    "optimizer" \in DOMAIN config /\ "scheduler" \notin DOMAIN config

\* (b) ZeRO-Offload with the Trainer's optimizer
OffloadWithoutOptimizer(config) ==
    /\ "optimizer" \notin DOMAIN config
    /\ "zero_optimization" \in DOMAIN config
    /\ "cpu_offload" \in DOMAIN config["zero_optimization"]
    /\ config["zero_optimization"]["cpu_offload"]

Conflict(config) == OptimizerWithoutScheduler(config) \/ OffloadWithoutOptimizer(config)

\* C4: for a user config with none of the forbidden keys and no
\* optimizer/scheduler conflict, deepspeed.initialize is called with a config
\* whose train_micro_batch_size_per_gpu is args.per_device_train_batch_size and
\* whose gradient_accumulation_steps is args.gradient_accumulation_steps.
C4_BatchSizeFromArgs ==
    (ds_call # NotCalled /\ ~HasBatchKey(UserConfig) /\ ~Conflict(UserConfig)) =>
        /\ ds_call[1].frame.initialize # NotCalled
        /\ LET passed == ds_call[1].frame.initialize[1].config_params
               args == ds_call[1].trainer.args
           IN  /\ "train_micro_batch_size_per_gpu" \in DOMAIN passed
               /\ passed["train_micro_batch_size_per_gpu"] = args.per_device_train_batch_size
               /\ "gradient_accumulation_steps" \in DOMAIN passed
               /\ passed["gradient_accumulation_steps"] = args.gradient_accumulation_steps

\* config {} with batch size 8 and accumulation 2 has been initialized with 8 and 2
C4_Witness ==
    /\ ds_call # NotCalled
    /\ UserConfig = EmptyDict
    /\ ds_call[1].trainer.args.per_device_train_batch_size = 8
    /\ ds_call[1].trainer.args.gradient_accumulation_steps = 2
    /\ ds_call[1].frame.initialize # NotCalled
    /\ ds_call[1].frame.initialize[1].config_params["train_micro_batch_size_per_gpu"] = 8
    /\ ds_call[1].frame.initialize[1].config_params["gradient_accumulation_steps"] = 2

\* C5: with one of train_batch_size, train_micro_batch_size_per_gpu,
\* gradient_accumulation_steps in the user config, deepspeed_init raises
\* ValueError before any effect: the Trainer gets no optimizer and no
\* scheduler, the ZeRO-3 flag keeps its value, deepspeed.initialize is not
\* called.
C5_ForbiddenKeysRaiseFirst ==
    (ds_call # NotCalled /\ HasBatchKey(UserConfig)) =>
        LET f == ds_call[1].frame
        IN  /\ f.raised = "ValueError"
            /\ f.optimizer = "None"
            /\ f.lr_scheduler = "None"
            /\ f.trainer_optimizer = ds_call[1].trainer.optimizer
            /\ f.trainer_lr_scheduler = ds_call[1].trainer.lr_scheduler
            /\ f.flag = ds_call[1].flag_before
            /\ f.enabled_with = "None"
            /\ f.initialize = NotCalled
            /\ ~f.loaded

\* a forbidden key beside a stage-2 section, with the flag switched on by hand
\* before: the call raised and the flag is still on
C5_Witness ==
    /\ ds_call # NotCalled
    /\ "train_batch_size" \in DOMAIN UserConfig
    /\ "optimizer" \notin DOMAIN UserConfig
    /\ "zero_optimization" \in DOMAIN UserConfig
    /\ "stage" \in DOMAIN UserConfig["zero_optimization"]
    /\ UserConfig["zero_optimization"]["stage"] = 2
    /\ ds_call[1].flag_before = "True"
    /\ ds_call[1].frame.raised = "ValueError"
    /\ ds_call[1].frame.why = "bs_keys"
    /\ _is_deepspeed_zero3_enabled = "True"

\* C6: among the calls whose config passes the check of the forbidden keys,
\* deepspeed_init raises ValueError without reaching deepspeed.initialize
\* exactly for (a) an optimizer section without a scheduler section and (b) no
\* optimizer section with zero_optimization.cpu_offload True.  Every other
\* combination reaches deepspeed.initialize (after which only a failed resume
\* raises), with the Trainer's own optimizer created iff there is no optimizer
\* section (zero_allow_untested_optimizer then set to True) and the Trainer's
\* own scheduler created iff there is no scheduler section.
C6_UnsupportedCombinations ==
    (ds_call # NotCalled /\ ~HasBatchKey(UserConfig)) =>
        LET f == ds_call[1].frame
        IN  IF Conflict(UserConfig)
            THEN /\ f.raised = "ValueError"
                 /\ f.why \in { "zero_offload", "hf_scheduler_ds_optimizer" }
                 /\ f.initialize = NotCalled
            ELSE /\ f.initialize # NotCalled
                 /\ f.raised # "none" => f.why = "resume"
                 /\ ds_call[1].resume_from_checkpoint = "None" => f.raised = "none"
                 /\ (f.optimizer = "created") <=> ("optimizer" \notin DOMAIN UserConfig)
                 /\ f.initialize[1].optimizer = f.optimizer
                 /\ f.trainer_optimizer =
                        IF "optimizer" \notin DOMAIN UserConfig THEN "created"
                        ELSE ds_call[1].trainer.optimizer
                 /\ ("zero_allow_untested_optimizer" \in DOMAIN f.initialize[1].config_params)
                        <=> ("optimizer" \notin DOMAIN UserConfig)
                 /\ "optimizer" \notin DOMAIN UserConfig =>
                        f.initialize[1].config_params["zero_allow_untested_optimizer"] = TRUE
                 /\ (f.lr_scheduler = "created") <=> ("scheduler" \notin DOMAIN UserConfig)
                 /\ f.initialize[1].lr_scheduler = f.lr_scheduler
                 /\ f.trainer_lr_scheduler =
                        IF "scheduler" \notin DOMAIN UserConfig THEN "created"
                        ELSE ds_call[1].trainer.lr_scheduler

\* ZeRO-Offload beside a DeepSpeed scheduler, without an optimizer section,
\* has been rejected
C6_Witness ==
    /\ ds_call # NotCalled
    /\ ~HasBatchKey(UserConfig)
    /\ "scheduler" \in DOMAIN UserConfig
    /\ OffloadWithoutOptimizer(UserConfig)
    /\ ds_call[1].frame.raised = "ValueError"
    /\ ds_call[1].frame.why = "zero_offload"
    /\ ds_call[1].frame.initialize = NotCalled

\* the checkpoint path lacks the DeepSpeed state: no global_step* directory,
\* or one that load_checkpoint returns no load path for
MissingCheckpointState(path) ==
    path # "None" /\ (~has_global_step_dirs(path) \/ load_checkpoint(path) = "None")

\* C7 as stated: a resume_from_checkpoint path that is missing the DeepSpeed
\* checkpoint state makes deepspeed_init fail with ValueError, both without a
\* global_step* directory and when load_checkpoint returns no load path.
C7_Original ==
    (ds_call # NotCalled /\ MissingCheckpointState(ds_call[1].resume_from_checkpoint)) =>
        ds_call[1].frame.raised = "ValueError"

\* C7 as amended: a path with a global_step* directory for which
\* load_checkpoint returns no load path makes deepspeed_init fail with
\* ValueError; a path without any global_step* directory is left alone: a call
\* that reached deepspeed.initialize returns normally, load_checkpoint uncalled.
C7_ResumeFailsOnlyOnFailedLoad ==
    ds_call # NotCalled =>
        LET f == ds_call[1].frame
            path == ds_call[1].resume_from_checkpoint
        IN  /\ (path # "None" /\ has_global_step_dirs(path) /\ load_checkpoint(path) = "None")
                  => f.raised = "ValueError"
            /\ (path # "None" /\ has_global_step_dirs(path) /\ load_checkpoint(path) = "None"
                  /\ f.initialize # NotCalled)
                  => (f.why = "resume" /\ f.loaded)
            /\ (path # "None" /\ ~has_global_step_dirs(path) /\ f.initialize # NotCalled)
                  => (f.raised = "none" /\ ~f.loaded)

\* an initialized engine failed to load the checkpoint it was pointed at
C7_Witness ==
    /\ ds_call # NotCalled
    /\ ds_call[1].resume_from_checkpoint = "ckpt_unloadable"
    /\ ds_call[1].frame.initialize # NotCalled
    /\ ds_call[1].frame.loaded
    /\ ds_call[1].frame.raised = "ValueError"
    /\ ds_call[1].frame.why = "resume"

----------------------------------------------------------------------------
(* Claims about the process-wide flag.                                     *)

\* the first '--deepspeed' of sys.argv is followed by the path of a file that
\* exists and holds a config whose zero_optimization.stage is 3
ArgvNamesStage3Config ==
    \E i \in 1..Len(sys_argv) :
        /\ sys_argv[i] = "--deepspeed"
        /\ \A j \in 1..(i - 1) : sys_argv[j] # "--deepspeed"
        /\ i < Len(sys_argv)
        /\ sys_argv[i + 1] \in DOMAIN disk_files
        /\ disk_files[sys_argv[i + 1]].state = "json"
        /\ "zero_optimization" \in DOMAIN disk_files[sys_argv[i + 1]].json
        /\ "stage" \in DOMAIN disk_files[sys_argv[i + 1]].json["zero_optimization"]
        /\ disk_files[sys_argv[i + 1]].json["zero_optimization"]["stage"] = 3

\* C8: after deepspeed_zero3_enable(b) every is_deepspeed_zero3_enabled() call
\* returns b, without looking at sys.argv, until the flag is assigned again;
\* with no override the first call that returns derives its value from
\* sys.argv (True iff the '--deepspeed' it finds is followed by an existing
\* config of stage 3), and every later call returns the value of the first
\* without looking at sys.argv again.
C8_FlagLazyOrOverridden ==
    /\ zero3_set_by.by = "enable" => _is_deepspeed_zero3_enabled = zero3_set_by.value
    /\ zero3_call # NotCalled =>
        /\ zero3_call[1].set_by.by = "enable" =>
              /\ zero3_call[1].raised = "none"
              /\ zero3_call[1].ret = zero3_call[1].set_by.value
              /\ ~zero3_call[1].read_argv
        /\ (zero3_call[1].set_by.by = "none" /\ zero3_call[1].raised = "none") =>
              /\ zero3_call[1].read_argv
              /\ zero3_call[1].ret = IF ArgvNamesStage3Config THEN "True" ELSE "False"
        /\ (zero3_call[1].set_by.by = "discovery" /\ zero3_call[1].set_by.value # "None") =>
              /\ zero3_call[1].raised = "none"
              /\ zero3_call[1].ret = zero3_call[1].set_by.value
              /\ zero3_call[1].ret = IF ArgvNamesStage3Config THEN "True" ELSE "False"
              /\ ~zero3_call[1].read_argv

\* a call after the first has returned the True the first derived from sys.argv
C8_Witness ==
    /\ zero3_call # NotCalled
    /\ zero3_call[1].set_by = [ by |-> "discovery", value |-> "True" ]
    /\ zero3_call[1].ret = "True"
    /\ ~zero3_call[1].read_argv
    /\ ArgvNamesStage3Config

\* C9: a deepspeed_init that gets past its config checks with a config holding
\* a zero_optimization section leaves the flag True iff zero_optimization.stage
\* is 3, whatever the flag was before (unset, auto-discovered or set by hand),
\* and is_deepspeed_zero3_enabled() returns that value from then on.
C9_InitSetsFlagFromStage ==
    /\ (ds_call # NotCalled /\ ds_call[1].frame.initialize # NotCalled
            /\ "zero_optimization" \in DOMAIN UserConfig) =>
          LET zero == UserConfig["zero_optimization"]
              stage3 == IF "stage" \in DOMAIN zero /\ zero["stage"] = 3
                        THEN "True" ELSE "False"
          IN  /\ ds_call[1].frame.flag = stage3
              /\ ds_call[1].frame.enabled_with = stage3
    /\ zero3_set_by.by = "deepspeed_init" => _is_deepspeed_zero3_enabled = zero3_set_by.value
    /\ (zero3_call # NotCalled /\ zero3_call[1].set_by.by = "deepspeed_init") =>
          /\ zero3_call[1].raised = "none"
          /\ zero3_call[1].ret = zero3_call[1].set_by.value
          /\ ~zero3_call[1].read_argv

\* the flag auto-discovered as True was replaced by a stage-2 deepspeed_init,
\* and is_deepspeed_zero3_enabled() has returned False since
C9_Witness ==
    /\ ds_call # NotCalled
    /\ ds_call[1].flag_before = "True"
    /\ ArgvNamesStage3Config
    /\ UserConfig = [ zero_optimization |-> [ stage |-> 2 ] ]
    /\ ds_call[1].frame.initialize # NotCalled
    /\ zero3_call # NotCalled
    /\ zero3_call[1].set_by = [ by |-> "deepspeed_init", value |-> "False" ]
    /\ zero3_call[1].ret = "False"

----------------------------------------------------------------------------
(* Claims about the construction of the callbacks.                         *)

\* the availability probe of a callback class, in the process's environment
Available(cls) ==
    CASE cls = "TensorBoardCallback" -> is_tensorboard_available(installed)
      [] cls = "WandbCallback" -> is_wandb_available(os_environ, installed)
      [] cls = "CometCallback" -> is_comet_available(os_environ, installed, comet_api_key)
      [] cls = "AzureMLCallback" -> is_azureml_available(installed)
      [] cls = "MLflowCallback" -> is_mlflow_available(installed)

\* C10: each of the five callbacks is constructed only when its availability
\* probe is true: with the probe false the construction raises and yields no
\* instance.
C10_ConstructedOnlyWhenAvailable ==
    new_callback # NotCalled =>
        LET made == new_callback[1]
        IN  /\ made.cls \in { "TensorBoardCallback", "WandbCallback", "CometCallback",
                              "AzureMLCallback", "MLflowCallback" }
            /\ ~Available(made.cls) => (made.raised # "none" /\ made.instance = <<>>)
            /\ made.instance # <<>> => (Available(made.cls) /\ made.instance[1].cls = made.cls)

\* TensorBoardCallback was asked for where neither tensorboard nor tensorboardX
\* is installed, and the construction raised
C10_Witness ==
    /\ new_callback # NotCalled
    /\ new_callback[1].cls = "TensorBoardCallback"
    /\ "tensorboard" \notin installed
    /\ "tensorboardX" \notin installed
    /\ new_callback[1].raised = "AssertionError"
    /\ new_callback[1].instance = <<>>

----------------------------------------------------------------------------
(* Claims about the hooks.  They read the trace: the hook calls, and the   *)
(* calls each made on its service.                                         *)

\* the calls that send a metric to a service
MetricOps == { "add_scalar", "wandb.log", "_log_metrics", "azureml_run.log", "log_metric" }

\* the positions of the trace written by the last hook call
LastCall == (last_hook[1].at + 1)..Len(trace)

\* the last hook call was on_log and the callback was in a position to
\* forward: on world process zero where the hook asks for it, and holding a
\* client
Forwarding ==
    /\ last_hook # NotCalled
    /\ last_hook[1].name = "on_log"
    /\ CASE cur_callback.cls = "TensorBoardCallback" ->
                cur_state.is_world_process_zero /\ cur_callback.tb_writer # "None"
         [] cur_callback.cls = "WandbCallback" -> cur_state.is_world_process_zero
         [] cur_callback.cls = "CometCallback" ->
                cur_state.is_world_process_zero /\ sdk.comet_experiment # "None"
         [] cur_callback.cls = "AzureMLCallback" -> cur_callback.azureml_run # "None"
         [] cur_callback.cls = "MLflowCallback" -> cur_state.is_world_process_zero

\* the key a callback sends an entry under
SentKey(k) ==
    IF cur_callback.cls \in { "TensorBoardCallback", "WandbCallback" }
    THEN ContractKey(k) ELSE k

\* the last call sent the value v under the key k
Forwarded(k, v) ==
    \E i \in LastCall : trace[i].op \in MetricOps /\ trace[i].key = k /\ trace[i].value = v

\* the last call logged a warning about the value v of key k
Warned(k, v) ==
    \E i \in LastCall : trace[i].op = "warning" /\ trace[i].key = k /\ trace[i].value = v

Numeric(v) == v.type \in { "int", "float", "bool" }

\* C11: in a process that is not world process zero no hook sends a metric,
\* whatever the callback and however it was constructed.
C11_OnlyWorldProcessZeroReports ==
    ~cur_state.is_world_process_zero =>
        \A i \in 1..Len(trace) : trace[i].op \notin MetricOps

\* C12 as stated: every value any of the five callbacks sends is an int or a
\* float.
C12_Original ==
    \A i \in 1..Len(trace) : trace[i].op \in MetricOps => Numeric(trace[i].value)

\* C12: TensorBoardCallback, AzureMLCallback and MLflowCallback send only
\* values that are instances of int or float; WandbCallback and CometCallback
\* do not filter, every value of the record is sent.
C12_ThreeAdaptersFilter ==
    /\ \A i \in 1..Len(trace) :
          trace[i].op \in { "add_scalar", "azureml_run.log", "log_metric" }
              => Numeric(trace[i].value)
    /\ (Forwarding /\ cur_callback.cls \in { "WandbCallback", "CometCallback" }) =>
          \A j \in 1..Len(last_hook[1].logs) :
              Forwarded(SentKey(last_hook[1].logs[j][1]), last_hook[1].logs[j][2])

\* MLflowCallback was given a record with a string between two numbers and
\* sent the two numbers only
C12_Witness ==
    /\ Forwarding
    /\ cur_callback.cls = "MLflowCallback"
    /\ Len(last_hook[1].logs) = 3
    /\ Cardinality({ i \in LastCall : trace[i].op = "log_metric" }) = 2

\* C13 as stated: a metric logger that meets a non-numeric value warns about
\* it and still sends every numeric value of the record.
C13_Original ==
    (Forwarding
       /\ cur_callback.cls \in { "TensorBoardCallback", "AzureMLCallback", "MLflowCallback" }) =>
        \A j \in 1..Len(last_hook[1].logs) :
            LET k == SentKey(last_hook[1].logs[j][1])
                v == last_hook[1].logs[j][2]
            IN  IF Numeric(v) THEN Forwarded(k, v) ELSE Warned(k, v) /\ ~Forwarded(k, v)

\* C13: TensorBoardCallback, MLflowCallback and AzureMLCallback drop a
\* non-numeric value and send every numeric value of the same record, before
\* it and after it; TensorBoardCallback and MLflowCallback warn about the
\* dropped value, AzureMLCallback says nothing.
C13_DroppedNotAnError ==
    (Forwarding
       /\ cur_callback.cls \in { "TensorBoardCallback", "AzureMLCallback", "MLflowCallback" }) =>
        /\ \A j \in 1..Len(last_hook[1].logs) :
              LET k == SentKey(last_hook[1].logs[j][1])
                  v == last_hook[1].logs[j][2]
              IN  IF Numeric(v) THEN Forwarded(k, v)
                  ELSE /\ ~Forwarded(k, v)
                       /\ Warned(k, v) <=> cur_callback.cls # "AzureMLCallback"
        /\ cur_callback.cls = "AzureMLCallback" =>
              \A i \in LastCall : trace[i].op # "warning"

\* TensorBoardCallback met the string, warned, and sent the number after it
C13_Witness ==
    /\ Forwarding
    /\ cur_callback.cls = "TensorBoardCallback"
    /\ \E i, j \in LastCall :
          /\ i < j
          /\ trace[i].op = "warning"
          /\ trace[i].value.type = "str"
          /\ trace[j].op = "add_scalar"

\* the hooks that set a callback up, and the positions of their calls
SetupHooks == { "on_train_begin", "on_log" }
HookCalls(names) == { i \in 1..Len(trace) : trace[i].on = "hook" /\ trace[i].op \in names }

\* the service initialisation of a callback's setup
InitOps == { "wandb.init", "Experiment", "OfflineExperiment", "start_run" }

\* what setup always calls on world process zero: for Comet, only in a mode
\* that creates an experiment
SetupOps == { "wandb.config.update", "Experiment", "OfflineExperiment", "start_run" }
SetupCalls ==
    cur_state.is_world_process_zero
    /\ (cur_callback.cls = "CometCallback"
          => upper(getenv(os_environ, "COMET_MODE", "ONLINE")) \in { "ONLINE", "OFFLINE" })

ClientOpen ==
    CASE cur_callback.cls = "TensorBoardCallback" -> cur_callback.tb_writer # "None"
      [] cur_callback.cls = "WandbCallback" -> sdk.wandb_run = "active"
      [] cur_callback.cls = "CometCallback" -> sdk.comet_experiment # "None"
      [] cur_callback.cls = "AzureMLCallback" -> cur_callback.azureml_run # "None"
      [] cur_callback.cls = "MLflowCallback" -> sdk.mlflow_run = "active"

\* the calls that flush or close a client
ClosingOps == { "flush", "close", "wandb.finish", "end_run" }

\* C15 as stated: once on_train_end has run on a callback with an open
\* client, the client has been flushed or closed.
C15_Original ==
    (last_hook # NotCalled /\ last_hook[1].name = "on_train_end" /\ ClientOpen) =>
        \E i \in 1..Len(trace) : trace[i].op \in ClosingOps

\* C15: on_train_end of TensorBoardCallback closes the writer the callback
\* holds; on_train_end of the other four flushes and closes nothing (Wandb
\* and MLflow at most upload artifacts), and MLflow's run is ended when the
\* instance is deleted.
C15_OnlyTensorBoardCloses ==
    /\ (last_hook # NotCalled /\ last_hook[1].name = "on_train_end") =>
          IF cur_callback.cls = "TensorBoardCallback"
          THEN cur_callback.tb_writer # "None" =>
                  /\ trace[Len(trace)].op = "close"
                  /\ trace[Len(trace)].on = cur_callback.tb_writer
          ELSE \A i \in LastCall : trace[i].op \in { "log_artifact", "log_artifacts" }
    /\ (last_hook # NotCalled /\ last_hook[1].name = "__del__") =>
          /\ trace[Len(trace)].op = "end_run"
          /\ sdk.mlflow_run = "None"

\* TensorBoardCallback made a writer, logged to it and closed it
C15_Witness ==
    /\ last_hook # NotCalled
    /\ last_hook[1].name = "on_train_end"
    /\ cur_callback.cls = "TensorBoardCallback"
    /\ cur_callback.tb_writer = "writer_1"
    /\ \E i \in 1..Len(trace) : trace[i].op = "add_scalar"
    /\ trace[Len(trace)].op = "close"


----------------------------------------------------------------------------
(* Claims about the search drivers, under SpecSearch.                      *)

Called(backend) == hp_call # NotCalled /\ hp_call[1].backend = backend

\* the trials of the call run one after another on the trainer
Sequential == hp_call # NotCalled /\ hp_call[1].n_jobs = 1

\* what a trial of its own makes of the objective: the one its training
\* recorded, else compute_objective of its evaluation metrics
OwnObjective(done) ==
    IF done.recorded THEN train_objective(done.trial) ELSE eval_objective(done.trial)

\* the value the search backend got for a finished trial: the value
\* _objective returned (Optuna), the objective of the last tune.report (Ray)
ReportedObjective(done) ==
    IF Called("ray")
    THEN IF done.reports = <<>> THEN None
         ELSE Some(done.reports[Len(done.reports)].objective)
    ELSE Some(done.value)

\* C16: in a sequence of trials on one trainer, each trial trains on a reset
\* objective, calls evaluate() exactly when its training recorded none, ends
\* with the objective of its own training or of its own evaluation, and that
\* objective is what the search backend is given
C16_TrialObjectiveIsItsOwn ==
    Sequential =>
        /\ \A j \in 1..Len(hp_jobs) :
              /\ hp_jobs[j].pc = "train" => hp_trainer.objective = None
              /\ hp_jobs[j].pc \in { "evaluate", "compute" } => ~hp_jobs[j].recorded
              /\ (hp_jobs[j].pc = "return" /\ ~hp_jobs[j].recorded) => hp_jobs[j].evaluated
        /\ \A i \in 1..Len(hp_done) :
              /\ hp_done[i].evaluated = ~hp_done[i].recorded
              /\ hp_done[i].value = OwnObjective(hp_done[i])
              /\ ReportedObjective(hp_done[i]) = Some(hp_done[i].value)

\* a second trial that recorded nothing, after a first one that did, ended
\* with the objective of its own evaluation
C16_Witness ==
    /\ Called("optuna")
    /\ Sequential
    /\ Len(hp_done) >= 2
    /\ hp_done[1].recorded
    /\ ~hp_done[2].recorded
    /\ hp_done[2].evaluated
    /\ hp_done[2].value = eval_objective(2)

\* the frame of the run_hp_search_ray call made
RayFrame == hp_call[1].frame[1]

\* the scheduler passed needs intermediate reports and evaluation is not
\* enabled
SchedulerWithoutEvaluation ==
    /\ "scheduler" \in DOMAIN RayFrame.kwargs
    /\ RayFrame.kwargs["scheduler"] \in ReportingSchedulers
    /\ (~RayFrame.trainer.args.do_eval \/ RayFrame.trainer.args.evaluation_strategy = "no")

\* C17: run_hp_search_ray raises RuntimeError, ray.tune.run never invoked,
\* whenever the scheduler needs intermediate reports and evaluation is not
\* enabled; in every other case the call raises no RuntimeError
C17_SchedulerCheckFailsFast ==
    Called("ray") =>
        IF SchedulerWithoutEvaluation
        THEN RayFrame.raised = "RuntimeError" /\ RayFrame.tune_run = None
        ELSE RayFrame.raised # "RuntimeError"

\* the trainer holds a callback of the class
Holds(trainer, cls) == \E i \in 1..Len(trainer.callbacks) : trainer.callbacks[i] = cls

\* the trainer as it was passed to the search
TrainerBefore == hp_call[1].before[1]

\* C18: when ray.tune.run is called the trainer has no model and holds no
\* TensorBoardCallback, and when run_hp_search_ray has returned the trainer
\* holds a TensorBoardCallback again iff it held one before the call
C18_UnpicklableStateRemoved ==
    Called("ray") =>
        /\ RayFrame.tune_run # None =>
              /\ RayFrame.tune_run[1].local_trainer.model = "None"
              /\ ~Holds(RayFrame.tune_run[1].local_trainer, "TensorBoardCallback")
              /\ ~Holds(hp_call[1].local_trainer[1], "TensorBoardCallback")
        /\ hp_call[1].pc = "running" =>
              hp_trainer.model = "None" /\ ~Holds(hp_trainer, "TensorBoardCallback")
        /\ hp_call[1].pc = "returned" =>
              Holds(hp_trainer, "TensorBoardCallback")
                  = Holds(TrainerBefore, "TensorBoardCallback")

\* a search on a trainer that held a TensorBoardCallback has returned and the
\* callback is back
C18_Witness ==
    /\ Called("ray")
    /\ hp_call[1].pc = "returned"
    /\ Holds(TrainerBefore, "TensorBoardCallback")
    /\ TrainerBefore.model = "model"
    /\ RayFrame.tune_run # None
    /\ ~Holds(RayFrame.tune_run[1].local_trainer, "TensorBoardCallback")
    /\ Holds(hp_trainer, "TensorBoardCallback")

\* the allocation the call ends up with, and its 'gpu' entry
ResourcesUsed == RayFrame.kwargs["resources_per_trial"]
GpuOf(resources) == IF "gpu" \in DOMAIN resources THEN resources["gpu"] ELSE 0

\* C19: without resources_per_trial from the caller the search runs with
\* {'cpu': 1}, plus 'gpu': 1 iff trainer.args.n_gpu > 0; a resources_per_trial
\* of the caller is passed on as it is; trainer.args._n_gpu is the 'gpu' entry
\* of the allocation used, 0 when it has none
C19_DefaultResources ==
    Called("ray") =>
        /\ ResourcesUsed =
              IF "resources_per_trial" \in DOMAIN hp_call[1].passed
              THEN hp_call[1].passed["resources_per_trial"]
              ELSE IF TrainerBefore.args.n_gpu > 0 THEN [ cpu |-> 1, gpu |-> 1 ]
                                                   ELSE [ cpu |-> 1 ]
        /\ RayFrame.tune_run # None =>
              /\ RayFrame.tune_run[1].kwargs["resources_per_trial"] = ResourcesUsed
              /\ RayFrame.tune_run[1].local_trainer.args._n_gpu = GpuOf(ResourcesUsed)
        /\ hp_trainer.args._n_gpu = GpuOf(ResourcesUsed)

\* a search without resources_per_trial on a trainer with two GPUs runs with
\* one CPU and one GPU per trial
C19_Witness ==
    /\ Called("ray")
    /\ "resources_per_trial" \notin DOMAIN hp_call[1].passed
    /\ TrainerBefore.args.n_gpu = 2
    /\ RayFrame.tune_run # None
    /\ RayFrame.tune_run[1].kwargs["resources_per_trial"] = [ cpu |-> 1, gpu |-> 1 ]
    /\ hp_trainer.args._n_gpu = 1

\* C20: with n_jobs > 1 and _objective invocations interleaved on the one
\* trainer, each invocation returns the objective of its own trial
C20_InterleavedTrialsReturnOwnObjective ==
    (Called("optuna") /\ hp_call[1].n_jobs > 1) =>
        \A i \in 1..Len(hp_done) : hp_done[i].value = OwnObjective(hp_done[i])

\* C29: run_hp_search_ray with keep_checkpoints_num = k > 0 sets
\* trainer.use_tune_checkpoints and goes on to ray.tune.run (the scheduler
\* check permitting); a k > 1 makes the call fail with nothing
C29_KeepCheckpointsOnlyWarns ==
    (/\ Called("ray")
     /\ "keep_checkpoints_num" \in DOMAIN hp_call[1].passed
     /\ hp_call[1].passed["keep_checkpoints_num"] > 0) =>
        /\ RayFrame.trainer.use_tune_checkpoints
        /\ RayFrame.raised # "KeyError"
        /\ ~SchedulerWithoutEvaluation => RayFrame.tune_run # None

----------------------------------------------------------------------------
(* Further claims about the hooks, under SpecHooks.                        *)

\* the instance as its constructor returned it
Constructed == new_callback[1].instance[1]

\* C21: a tb_writer passed to the constructor is the writer used: on world
\* process zero every add_text and add_scalar call goes to it, and the
\* callback instantiates no writer of its own
C21_SuppliedWriterIsUsed ==
    (/\ Constructed.cls = "TensorBoardCallback"
     /\ Constructed.tb_writer = "given"
     /\ cur_state.is_world_process_zero) =>
        \A i \in 1..Len(trace) :
            /\ trace[i].op \in { "add_text", "add_scalar" } => trace[i].on = "given"
            /\ trace[i].op # "SummaryWriter"

\* the wandb.finish calls of the trace before event i
FinishesBefore(i) == { k \in 1..(i - 1) : trace[k].op = "wandb.finish" }

\* C28: on world process zero WandbCallback never logs without a run: every
\* wandb.log of the trace has a wandb.init between it and the last
\* wandb.finish before it
C28_LogsOnlyIntoActiveRun ==
    (Constructed.cls = "WandbCallback" /\ cur_state.is_world_process_zero) =>
        \A i \in 1..Len(trace) :
            (trace[i].op = "wandb.log" /\ FinishesBefore(i) # {}) =>
                \E j \in 1..(i - 1) :
                    /\ trace[j].op = "wandb.init"
                    /\ \A k \in FinishesBefore(i) : k < j

----------------------------------------------------------------------------
(* Further claims about deepspeed_init and the flag.                       *)

\* the keys deepspeed_init refuses in a config
ForbiddenKeys ==
    { "train_batch_size", "train_micro_batch_size_per_gpu", "gradient_accumulation_steps" }

\* C22 (under SpecDSInit): deepspeed_init leaves the dict held in
\* args.deepspeed as it was, nested sections included, so a call made again
\* with the same dict raises for a forbidden key only when the user's dict
\* has one
C22_UserDictUntouched ==
    ds_call # NotCalled =>
        /\ cur_trainer.args.deepspeed = ds_call[1].trainer.args.deepspeed
        /\ ds_call[1].frame.why \in { "bs_keys", "gradient_accumulation_steps" } =>
              ForbiddenKeys \cap DOMAIN cur_trainer.args.deepspeed.value # {}

\* a second call on the same dict was accepted, after a first one that wrote
\* the batch keys and the bucket sizes into its own copy
C22_Witness ==
    /\ ds_call # NotCalled
    /\ ds_call[1].again
    /\ ds_call[1].frame.raised = "none"
    /\ "train_micro_batch_size_per_gpu" \in DOMAIN ds_call[1].frame.config
    /\ "zero_optimization" \in DOMAIN cur_trainer.args.deepspeed.value
    /\ ds_call[1].frame.config["zero_optimization"]
          # cur_trainer.args.deepspeed.value["zero_optimization"]
    /\ cur_trainer.args.deepspeed = ds_call[1].trainer.args.deepspeed

----------------------------------------------------------------------------
(* Claims about the processor, under SpecPixtral.                          *)

ImageTokenIds == { IMG, IMG_BREAK, IMG_END }
IsImageToken(t) == t \in ImageTokenIds
IsTextToken(t) == t \notin ImageTokenIds
IsTextPiece(piece) == piece # "[IMG]"

\* the patch grid of an image as tokens: rows of cols [IMG], an [IMG_BREAK]
\* after every row but the last, an [IMG_END] after the last
Block(g) ==
    [ p \in 1..(g.rows * (g.cols + 1)) |->
        IF p % (g.cols + 1) # 0 THEN IMG
        ELSE IF p = g.rows * (g.cols + 1) THEN IMG_END ELSE IMG_BREAK ]

\* the blocks of the images before the j-th, one after the other
RECURSIVE BlocksBefore(_)
BlocksBefore(j) ==
    IF j = 1 THEN <<>> ELSE BlocksBefore(j - 1) \o Block(px_grid[px_images[j - 1]])

\* where the j-th placeholder of the prompt is
PlaceholderAt(j) ==
    CHOOSE i \in 1..Len(px_text) :
        /\ px_text[i] = "[IMG]"
        /\ Cardinality({ m \in 1..i : px_text[m] = "[IMG]" }) = j

\* the tokens of the text before piece i
TextBefore(i) == tokenize(SelectSeq(SubSeq(px_text, 1, i - 1), IsTextPiece))

\* input_ids is the prompt with each placeholder replaced, in order, by the
\* block of its image, every other token as it was
Expanded(ids) ==
    /\ SelectSeq(ids, IsTextToken) = tokenize(SelectSeq(px_text, IsTextPiece))
    /\ SelectSeq(ids, IsImageToken) = BlocksBefore(Len(px_images) + 1)
    /\ \A j \in 1..Len(px_images) :
          LET start == Len(TextBefore(PlaceholderAt(j))) + Len(BlocksBefore(j))
              block == Block(px_grid[px_images[j]])
          IN  SubSeq(ids, start + 1, start + Len(block)) = block

\* the images of the prompt all have the grid the tests' images have
TestImages == \A j \in 1..Len(px_images) : px_grid[px_images[j]] = TestGrid

FinalConfig == ds_call[1].frame.config

\* the command-line values of lines 408-413 and 454-457
OptimizerArgs ==
    LET args == ds_call[1].trainer.args
    IN  [ lr |-> args.learning_rate, betas |-> << args.adam_beta1, args.adam_beta2 >>,
          eps |-> args.adam_epsilon, weight_decay |-> args.weight_decay ]
SchedulerArgs ==
    LET args == ds_call[1].trainer.args
    IN  [ warmup_max_lr |-> args.learning_rate, warmup_num_steps |-> args.warmup_steps ]

\* the call went through the optimizer section, through the scheduler section
PastOptimizer ==
    ds_call[1].frame.why \notin { "parse", "bs_keys", "gradient_accumulation_steps" }
PastScheduler == PastOptimizer /\ ds_call[1].frame.why # "zero_offload"

\* the section is as the user wrote it, but for its params
SectionKept(name) ==
    /\ DOMAIN FinalConfig[name] = DOMAIN UserConfig[name]
    /\ \A k \in DOMAIN UserConfig[name] \ { "params" } : FinalConfig[name][k] = UserConfig[name][k]

\* C24 (under SpecDSInit): in optimizer.params the keys lr, betas, eps and
\* weight_decay, in scheduler.params the keys warmup_max_lr and
\* warmup_num_steps, take the command-line value iff the user's config has
\* them and are never added; every other key is as the user wrote it, except
\* scheduler.params.total_num_steps, which is num_training_steps iff the
\* scheduler's type is WarmupDecayLR
C24_OverridesOnlyWhatIsDeclared ==
    ds_call # NotCalled =>
        /\ (PastOptimizer /\ "optimizer" \in DOMAIN UserConfig) =>
              LET before == UserConfig["optimizer"]["params"]
                  after == FinalConfig["optimizer"]["params"]
              IN  /\ SectionKept("optimizer")
                  /\ DOMAIN after = DOMAIN before
                  /\ \A k \in DOMAIN before :
                        after[k] = IF k \in DOMAIN OptimizerArgs THEN OptimizerArgs[k]
                                   ELSE before[k]
        /\ (PastScheduler /\ "scheduler" \in DOMAIN UserConfig) =>
              LET before == UserConfig["scheduler"]["params"]
                  after == FinalConfig["scheduler"]["params"]
                  decay == UserConfig["scheduler"]["type"] = "WarmupDecayLR"
              IN  /\ SectionKept("scheduler")
                  /\ DOMAIN after = DOMAIN before
                                    \cup (IF decay THEN { "total_num_steps" } ELSE {})
                  /\ \A k \in DOMAIN after :
                        after[k] = IF k \in DOMAIN SchedulerArgs THEN SchedulerArgs[k]
                                   ELSE IF k = "total_num_steps" /\ decay
                                   THEN ds_call[1].num_training_steps
                                   ELSE before[k]

\* a call that overrode lr and weight_decay, kept amsgrad, added neither
\* betas nor eps, and gave a WarmupDecayLR scheduler its total_num_steps
C24_Witness ==
    /\ ds_call # NotCalled
    /\ ds_call[1].frame.raised = "none"
    /\ "optimizer" \in DOMAIN UserConfig
    /\ "scheduler" \in DOMAIN UserConfig
    /\ DOMAIN UserConfig["optimizer"]["params"] = { "lr", "weight_decay", "amsgrad" }
    /\ FinalConfig["optimizer"]["params"] = [ lr |-> 5, weight_decay |-> 0, amsgrad |-> FALSE ]
    /\ UserConfig["optimizer"]["params"]["lr"] = 3
    /\ UserConfig["scheduler"]["type"] = "WarmupDecayLR"
    /\ FinalConfig["scheduler"]["params"] = [ warmup_num_steps |-> 10, total_num_steps |-> 1000 ]

\* the hidden size lines 500-501 take from the model
HiddenSize ==
    LET t == ds_call[1].trainer
    IN  IF t.args.ort THEN t.model.original_hidden_size ELSE t.model.hidden_size

\* what a bucket key configured as 0 is replaced by (lines 502-507)
BucketValues ==
    [ reduce_bucket_size |-> HiddenSize * HiddenSize,
      stage3_prefetch_bucket_size |-> (9 * HiddenSize * HiddenSize) \div 10,
      stage3_param_persistence_threshold |-> 10 * HiddenSize ]

\* C25 (under SpecDSInit): within zero_optimization the three bucket keys are
\* replaced by hidden_size*hidden_size, 0.9*hidden_size*hidden_size and
\* 10*hidden_size exactly when configured as 0; an absent key is not added
\* and any other value or key is left as it is
C25_BucketsOnlyWhenZero ==
    (/\ ds_call # NotCalled
     /\ ds_call[1].frame.raised = "none"
     /\ "zero_optimization" \in DOMAIN UserConfig) =>
        LET before == UserConfig["zero_optimization"]
            after == FinalConfig["zero_optimization"]
        IN  /\ DOMAIN after = DOMAIN before
            /\ \A k \in DOMAIN before :
                  after[k] = IF k \in DOMAIN BucketValues /\ before[k] = 0
                             THEN BucketValues[k] ELSE before[k]

\* a call that sized two buckets configured as 0, left a configured 500 and
\* did not add the absent threshold
C25_Witness ==
    /\ ds_call # NotCalled
    /\ ds_call[1].frame.raised = "none"
    /\ "zero_optimization" \in DOMAIN UserConfig
    /\ UserConfig["zero_optimization"] =
          [ stage |-> 3, reduce_bucket_size |-> 500, stage3_prefetch_bucket_size |-> 0 ]
    /\ ds_call[1].trainer.args.ort
    /\ FinalConfig["zero_optimization"] =
          [ stage |-> 3, reduce_bucket_size |-> 500, stage3_prefetch_bucket_size |-> 360 ]

\* the first is_deepspeed_zero3_enabled() call raised: the flag was last
\* assigned by a discovery that returned nothing
DiscoveryRaised == [ by |-> "discovery", value |-> "None" ]

\* C26 (under SpecFlag): a first is_deepspeed_zero3_enabled() call that raises
\* has set the flag to False already; every later call returns False without
\* raising and without looking at sys.argv, until deepspeed_zero3_enable or
\* deepspeed_init assigns the flag
C26_RaisedDiscoveryLeavesFalse ==
    /\ zero3_set_by = DiscoveryRaised => _is_deepspeed_zero3_enabled = "False"
    /\ (zero3_call # NotCalled /\ zero3_call[1].set_by = DiscoveryRaised) =>
          /\ zero3_call[1].raised = "none"
          /\ zero3_call[1].ret = "False"
          /\ ~zero3_call[1].read_argv

\* with '--deepspeed' naming a missing file first in sys.argv, a call after
\* the one that raised has returned False
C26_Witness ==
    /\ Len(sys_argv) >= 2
    /\ sys_argv[1] = "--deepspeed"
    /\ sys_argv[2] \in DOMAIN disk_files
    /\ disk_files[sys_argv[2]].state = "missing"
    /\ zero3_call # NotCalled
    /\ zero3_call[1].set_by = DiscoveryRaised
    /\ zero3_call[1].ret = "False"
    /\ zero3_call[1].raised = "none"

\* C27 (under SpecFlag): deepspeed_init on a config without a
\* zero_optimization section does not assign the flag; a True set before it
\* by deepspeed_init or deepspeed_zero3_enable(True) is what
\* is_deepspeed_zero3_enabled() returns after it
C27_NonZeroInitKeepsFlag ==
    /\ (ds_call # NotCalled /\ "zero_optimization" \notin DOMAIN UserConfig) =>
          /\ ds_call[1].frame.flag = ds_call[1].flag_before
          /\ ds_call[1].frame.enabled_with = "None"
    /\ KeptByInit => _is_deepspeed_zero3_enabled = "True"
    /\ (zero3_call # NotCalled /\ zero3_call[1].after_kept) =>
          /\ zero3_call[1].raised = "none"
          /\ zero3_call[1].ret = "True"
          /\ ~zero3_call[1].read_argv

\* the flag set True by a stage-3 deepspeed_init was read as True after a
\* deepspeed_init without zero_optimization
C27_Witness ==
    /\ zero3_call # NotCalled
    /\ zero3_call[1].after_kept
    /\ zero3_call[1].set_by = [ by |-> "deepspeed_init", value |-> "True" ]
    /\ zero3_call[1].ret = "True"

----------------------------------------------------------------------------
(* Claim about the parameters MLflowCallback.setup logs, under SpecMLflow. *)

\* the keys of the arguments and the value the claim gives each: the args'
\* value when args has the key, the model config's otherwise
ParamKeys ==
    dict_keys(ml_input.args) \cup
    (IF ml_input.model_config = None THEN {} ELSE dict_keys(ml_input.model_config[1]))
ParamValue(key) ==
    IF key \in dict_keys(ml_input.args) THEN dict_get(ml_input.args, key)
    ELSE dict_get(ml_input.model_config[1], key)

\* the parameters in their order: the model config's keys, then the keys
\* only args has
ParamOrder ==
    IF ml_input.model_config = None
    THEN [ i \in 1..Len(ml_input.args) |-> ml_input.args[i][1] ]
    ELSE [ i \in 1..Len(ml_input.model_config[1]) |-> ml_input.model_config[1][i][1] ]
         \o [ i \in 1..Len(SelectSeq(ml_input.args,
                  LAMBDA item : item[1] \notin dict_keys(ml_input.model_config[1]))) |->
                SelectSeq(ml_input.args,
                  LAMBDA item : item[1] \notin dict_keys(ml_input.model_config[1]))[i][1] ]

\* the places a key is logged at: the call and the position in the call
LoggedAt(key) ==
    { at \in (1..Len(ml_call[1].log_params)) \X (1..MaxParams + MaxParams + 2) :
        /\ at[2] <= Len(ml_call[1].log_params[at[1]])
        /\ ml_call[1].log_params[at[1]][at[2]][1] = key }

\* the keys logged, in the order of the calls and of each call's items
RECURSIVE Flatten(_)
Flatten(calls) ==
    IF calls = <<>> THEN <<>>
    ELSE [ i \in 1..Len(Head(calls)) |-> Head(calls)[i][1] ] \o Flatten(Tail(calls))

TooLong(key) == Len(str(ParamValue(key))) > ml_input.MAX_PARAM_VAL_LENGTH

\* C30: on world process zero setup logs the combined parameters, args
\* winning on a shared key: a parameter is dropped iff str(value) is longer
\* than MAX_PARAM_VAL_LENGTH, every other one is in exactly one log_params
\* call with its value, the calls keep the parameters' order, and no call has
\* more than MAX_PARAMS_TAGS_PER_BATCH parameters
C30_ParamsLoggedInBatches ==
    (ml_call # NotCalled /\ ml_input.is_world_process_zero) =>
        /\ \A key \in ParamKeys :
              IF TooLong(key) THEN LoggedAt(key) = {}
              ELSE /\ Cardinality(LoggedAt(key)) = 1
                   /\ \A at \in LoggedAt(key) :
                         ml_call[1].log_params[at[1]][at[2]][2] = ParamValue(key)
        /\ Flatten(ml_call[1].log_params) = SelectSeq(ParamOrder, LAMBDA key : ~TooLong(key))
        /\ \A c \in 1..Len(ml_call[1].log_params) :
              Len(ml_call[1].log_params[c]) <= ml_input.MAX_PARAMS_TAGS_PER_BATCH

\* a setup that overlaid a shared key, dropped a parameter and needed two calls
C30_Witness ==
    /\ ml_call # NotCalled
    /\ ml_input.is_world_process_zero
    /\ ml_input.model_config # None
    /\ dict_keys(ml_input.args) \cap dict_keys(ml_input.model_config[1]) # {}
    /\ \E key \in ParamKeys : TooLong(key)
    /\ Len(ml_call[1].log_params) = 2
    /\ ml_call[1].warned # <<>>

====
